---- MODULE Spec2Model ----
(***************************************************************************)
(* Model of the interactive HMM result window of MtDy.py                    *)
(* (EnhancedHMMResultWindow): the decode -> minimum-dwell filter ->         *)
(* smoothing -> state mapping -> statistics pipeline, the parameter-change  *)
(* / retrain / export events that drive it, and the pure functions the      *)
(* pipeline is made of; the kinetics view (KineticsAnalysis): its          *)
(* change-point segmenter, its filter widgets and its point / region       *)
(* selections; and the chunked TDMS reader (tdms_reader.py).                *)
(*                                                                          *)
(* Arrays are TLA+ sequences; a Python index i is position i+1.  Floating   *)
(* point values are exact rationals <<num, den>> (den > 0, lowest terms).   *)
(* Time stamps of the window are integer ticks, those of the segmenter      *)
(* rationals.                                                               *)
(***************************************************************************)
EXTENDS Integers, Sequences, FiniteSets, TLC

\* ------------------------------------------------------------------------
\* Generic helpers (numpy / Python primitives)
\* ------------------------------------------------------------------------

\* "no neighbour" (Python None) for a state label
None == -1

Abs(n) == IF n < 0 THEN -n ELSE n

Min2(a, b) == IF a <= b THEN a ELSE b

Max2(a, b) == IF a >= b THEN a ELSE b

SetMin(S) == CHOOSE m \in S : \A n \in S : m <= n

SetMax(S) == CHOOSE m \in S : \A n \in S : m >= n

RECURSIVE GCD(_, _)
GCD(a, b) == IF b = 0 THEN a ELSE GCD(b, a % b)

\* the rational n/d in lowest terms with a positive denominator
Frac(n, d) ==
  LET s == IF d < 0 THEN -1 ELSE 1
      g == GCD(Abs(n), Abs(d))
  IN  <<(s * n) \div g, (s * d) \div g>>

FracAdd(p, q) == Frac(p[1] * q[2] + q[1] * p[2], p[2] * q[2])

FracSub(p, q) == Frac(p[1] * q[2] - q[1] * p[2], p[2] * q[2])

FracLess(p, q) == p[1] * q[2] < q[1] * p[2]

FracLeq(p, q) == p[1] * q[2] <= q[1] * p[2]

FracAbs(p) == <<Abs(p[1]), p[2]>>

FracMul(p, q) == Frac(p[1] * q[1], p[2] * q[2])

\* p / q for q # 0
FracDiv(p, q) == Frac(p[1] * q[2], p[2] * q[1])

\* the function f on 1..n as an array (a tuple whose elements are evaluated once)
Array(f) == SubSeq(f, 1, Len(f))

\* a[i] for a Python index i
At(a, i) == a[i + 1]

\* a[lo:hi] for Python indices 0 <= lo <= hi <= len(a)
Slice(a, lo, hi) == SubSeq(a, lo + 1, hi)

RECURSIVE SeqSum(_)
SeqSum(a) == IF a = <<>> THEN 0 ELSE Head(a) + SeqSum(Tail(a))

\* np.mean of a non-empty integer array
Mean(a) == Frac(SeqSum(a), Len(a))

RECURSIVE FracSeqSum(_)
FracSeqSum(a) == IF a = <<>> THEN <<0, 1>> ELSE FracAdd(Head(a), FracSeqSum(Tail(a)))

\* the elements of a finite set of integers in ascending order (np.unique, np.where)
RECURSIVE SortedSeq(_)
SortedSeq(S) == IF S = {} THEN <<>> ELSE <<SetMin(S)>> \o SortedSeq(S \ {SetMin(S)})

\* np.unique(a) as a set
Unique(a) == {a[k] : k \in 1..Len(a)}

\* the samples of x selected by the boolean mask (states == label)
RECURSIVE Masked(_, _, _)
Masked(x, states, label) ==
  IF x = <<>> THEN <<>>
  ELSE (IF Head(states) = label THEN <<Head(x)>> ELSE <<>>) \o Masked(Tail(x), Tail(states), label)

\* np.where(np.diff(states) != 0)[0]: Python indices i with states[i] != states[i+1]
DiffIndices(states) ==
  IF Len(states) < 2 THEN <<>>
  ELSE SelectSeq(Array([k \in 1..(Len(states) - 1) |-> k - 1]),
                 LAMBDA i : At(states, i) # At(states, i + 1))

\* elementwise + 1
PlusOne(a) == Array([k \in 1..Len(a) |-> a[k] + 1])

\* ------------------------------------------------------------------------
\* Sequence Stabilizer: minimum-dwell filter and smoothing
\* ------------------------------------------------------------------------

\* iteration cap of the minimum-dwell loop
max_iterations == 10

\* _get_segment_length_at_index
GetSegmentLengthAtIndex(states, index) ==
  IF index < 0 \/ index >= Len(states) THEN 0
  ELSE LET cur   == At(states, index)
           start == SetMin({a \in 0..index : \A j \in a..index : At(states, j) = cur})
           end   == SetMax({b \in index..(Len(states) - 1) : \A j \in index..b : At(states, j) = cur})
       IN  end - start + 1

\* the neighbour state chosen when the following segment wins a tie
MergeStateNextOnTie(fs, start_idx, end_idx) ==
  LET prev_state == IF start_idx > 0 THEN At(fs, start_idx - 1) ELSE None
      next_state == IF end_idx < Len(fs) THEN At(fs, end_idx) ELSE None
  IN  IF prev_state # None /\ next_state # None
        THEN IF GetSegmentLengthAtIndex(fs, start_idx - 1) > GetSegmentLengthAtIndex(fs, end_idx)
               THEN prev_state ELSE next_state
      ELSE IF prev_state # None THEN prev_state
      ELSE IF next_state # None THEN next_state
      ELSE None

\* the neighbour state a short segment [start_idx, end_idx) is merged into, or None
MergeState(fs, start_idx, end_idx) ==
  LET prev_state == IF start_idx > 0 THEN At(fs, start_idx - 1) ELSE None
      next_state == IF end_idx < Len(fs) THEN At(fs, end_idx) ELSE None
  IN  IF prev_state # None /\ next_state # None
        THEN IF GetSegmentLengthAtIndex(fs, start_idx - 1) >= GetSegmentLengthAtIndex(fs, end_idx)
               THEN prev_state ELSE next_state
      ELSE IF prev_state # None THEN prev_state
      ELSE IF next_state # None THEN next_state
      ELSE None

\* filtered_states[start_idx:end_idx] = merge_state
AssignSlice(fs, start_idx, end_idx, v) ==
  Array([k \in 1..Len(fs) |-> IF start_idx < k /\ k <= end_idx THEN v ELSE fs[k]])

\* one pass of the while loop body: the boundaries of the current sequence and
\* the segments (by position in all_boundaries) the for loop may merge
AllBoundaries(fs) == <<0>> \o PlusOne(DiffIndices(fs)) \o <<Len(fs)>>

\* the segments the for loop may merge when a segment needs a neighbour on
\* both sides
MergeableInner(fs, min_dwell_time) ==
  LET b == AllBoundaries(fs)
  IN  {i \in 2..(Len(b) - 2) :
         /\ b[i + 1] - b[i] < min_dwell_time
         /\ MergeState(fs, b[i], b[i + 1]) # None
         /\ MergeState(fs, b[i], b[i + 1]) # At(fs, b[i])}

Mergeable(fs, min_dwell_time) ==
  LET b == AllBoundaries(fs)
  IN  {i \in 1..(Len(b) - 1) :
         /\ b[i + 1] - b[i] < min_dwell_time
         /\ MergeState(fs, b[i], b[i + 1]) # None
         /\ MergeState(fs, b[i], b[i + 1]) # At(fs, b[i])}

\* the while loop: at most max_iterations passes, each merging the first
\* mergeable short segment and restarting
RECURSIVE DwellLoop(_, _, _)
DwellLoop(fs, min_dwell_time, iteration) ==
  IF iteration >= max_iterations THEN fs
  ELSE IF DiffIndices(fs) = <<>> THEN fs
  ELSE LET b == AllBoundaries(fs)
           M == Mergeable(fs, min_dwell_time)
       IN  IF M = {} THEN fs
           ELSE LET i == SetMin(M)
                IN  DwellLoop(AssignSlice(fs, b[i], b[i + 1], MergeState(fs, b[i], b[i + 1])),
                              min_dwell_time, iteration + 1)

\* the while loop seen pass by pass: filtered_states before the first pass and
\* after every pass that merged a segment
RECURSIVE DwellPasses(_, _, _)
DwellPasses(fs, min_dwell_time, iteration) ==
  IF iteration >= max_iterations THEN <<fs>>
  ELSE IF DiffIndices(fs) = <<>> THEN <<fs>>
  ELSE LET b == AllBoundaries(fs)
           M == Mergeable(fs, min_dwell_time)
       IN  IF M = {} THEN <<fs>>
           ELSE LET i == SetMin(M)
                IN  <<fs>> \o
                    DwellPasses(AssignSlice(fs, b[i], b[i + 1], MergeState(fs, b[i], b[i + 1])),
                                min_dwell_time, iteration + 1)

\* _apply_minimum_dwell_time_filter seen pass by pass
FilterPasses(states, min_dwell_time) ==
  IF min_dwell_time <= 1 THEN <<states>>
  ELSE IF DiffIndices(states) = <<>> THEN <<states>>
  ELSE DwellPasses(states, min_dwell_time, 0)

\* _apply_minimum_dwell_time_filter
ApplyMinimumDwellTimeFilter(states, min_dwell_time) ==
  IF min_dwell_time <= 1 THEN states
  ELSE IF DiffIndices(states) = <<>> THEN states
  ELSE DwellLoop(states, min_dwell_time, 0)

\* count of label v in window
CountOf(window, v) == Cardinality({k \in 1..Len(window) : window[k] = v})

\* an even window size made odd by taking one off
EffectiveWindowDown(window_size) ==
  IF window_size % 2 = 0 THEN window_size - 1 ELSE window_size

\* the window size the smoothing loop works with (even sizes are made odd)
EffectiveWindow(window_size) == IF window_size % 2 = 0 THEN window_size + 1 ELSE window_size

\* _smooth_state_sequence changing a sample when the most frequent label fills
\* at least 0.6 of the window
SmoothStateSequenceAtLeast(states, window_size) ==
  IF Len(states) < window_size \/ window_size <= 1 THEN states
  ELSE LET w            == EffectiveWindow(window_size)
           half_window  == w \div 2
           valid_states == Unique(states)
           Win(i)       == Slice(states, i - half_window, i + half_window + 1)
           MaxCount(i)  == SetMax({CountOf(Win(i), v) : v \in Unique(Win(i))})
           Most(i)      == SetMin({v \in Unique(Win(i)) : CountOf(Win(i), v) = MaxCount(i)})
       IN  Array([k \in 1..Len(states) |->
              LET i == k - 1
              IN  IF /\ half_window <= i
                     /\ i < Len(states) - half_window
                     /\ 10 * MaxCount(i) >= 6 * w
                     /\ Most(i) \in valid_states
                    THEN Most(i) ELSE states[k]])

\* _smooth_state_sequence
SmoothStateSequence(states, window_size) ==
  IF Len(states) < window_size \/ window_size <= 1 THEN states
  ELSE LET w            == EffectiveWindow(window_size)
           half_window  == w \div 2
           valid_states == Unique(states)
           Win(i)       == Slice(states, i - half_window, i + half_window + 1)
           MaxCount(i)  == SetMax({CountOf(Win(i), v) : v \in Unique(Win(i))})
           \* unique_states[np.argmax(counts)]: the smallest label with the largest count
           Most(i)      == SetMin({v \in Unique(Win(i)) : CountOf(Win(i), v) = MaxCount(i)})
       IN  Array([k \in 1..Len(states) |->
              LET i == k - 1
              IN  IF /\ half_window <= i
                     /\ i < Len(states) - half_window
                     /\ 10 * MaxCount(i) > 6 * w
                     /\ Most(i) \in valid_states
                    THEN Most(i) ELSE states[k]])

\* ------------------------------------------------------------------------
\* State Canonicalizer
\* ------------------------------------------------------------------------

\* state_names as set up by __init__
StateNames(n) ==
  IF n = 2 THEN <<"Closed", "Open">> ELSE <<"Closed", "Intermediate", "Open">>

\* mean of extension_data over the samples carrying the label
LabelMean(hs, x, label) ==
  Mean(Masked(x, hs, label))

\* state_means before the sort: (label, mean) in ascending label order
StateMeans(hs, x) ==
  LET labels == SortedSeq(Unique(hs))
  IN  Array([k \in 1..Len(labels) |->
               <<labels[k], LabelMean(hs, x, labels[k])>>])

\* SortedRank counting positions from 1 (enumerate(state_means, 1))
SortedRankFromOne(state_means, k) ==
  1 + Cardinality({o \in 1..Len(state_means) :
        \/ FracLess(state_means[o][2], state_means[k][2])
        \/ state_means[o][2] = state_means[k][2] /\ o < k})

\* position (0-based) of entry k of state_means after the stable sort by mean
SortedRank(state_means, k) ==
  Cardinality({o \in 1..Len(state_means) :
     \/ FracLess(state_means[o][2], state_means[k][2])
     \/ state_means[o][2] = state_means[k][2] /\ o < k})

\* _create_state_mapping_and_square_wave keeping every label as its own rank
CreateStateMappingByLabel(hs, x) ==
  [old_state \in Unique(hs) |-> old_state]

\* _create_state_mapping_and_square_wave: state_map
CreateStateMapping(hs, x) ==
  LET sm    == StateMeans(hs, x)
      ranks == Array([k \in 1..Len(sm) |-> SortedRank(sm, k)])
  IN  [old_state \in Unique(hs) |->
         ranks[CHOOSE k \in 1..Len(sm) : sm[k][1] = old_state]]

\* _create_state_mapping_and_square_wave: square_wave
CreateSquareWave(hs, x) ==
  LET sm == StateMeans(hs, x)
  IN  Array([k \in 1..Len(x) |->
               sm[CHOOSE j \in 1..Len(sm) : sm[j][1] = hs[k]][2]])

\* _update_ui_statistics naming each row after the label instead of its rank
StateStatsRowsByLabel(n, hs, smap, x) ==
  LET shown == SortedSeq({s \in 0..(n - 1) : s < Len(StateNames(n)) /\ s \in Unique(hs)})
  IN  Array([i \in 1..Len(shown) |->
        [name      |-> StateNames(n)[shown[i] + 1],
         occupancy |-> Frac(100 * CountOf(hs, shown[i]), Len(hs)),
         mean      |-> LabelMean(hs, x, shown[i])]])

\* _update_ui_statistics: the rows added to state_stats_layout, one per label
\* 0..n-1 that occurs in hidden_states, named after the label's rank
StateStatsRows(n, hs, smap, x) ==
  LET mapped_idx(s) == IF s \in DOMAIN smap THEN smap[s] ELSE s
      shown == SortedSeq({s \in 0..(n - 1) :
                           mapped_idx(s) < Len(StateNames(n)) /\ s \in Unique(hs)})
  IN  Array([i \in 1..Len(shown) |->
        [name      |-> StateNames(n)[mapped_idx(shown[i]) + 1],
         occupancy |-> Frac(100 * CountOf(hs, shown[i]), Len(hs)),
         mean      |-> LabelMean(hs, x, shown[i])]])

\* np.array([self.state_map.get(s, s) for s in self.hidden_states])
MappedStates(smap, hs) ==
  Array([k \in 1..Len(hs) |->
     IF hs[k] \in DOMAIN smap THEN smap[hs[k]] ELSE hs[k]])

\* ------------------------------------------------------------------------
\* Kinetics Extractor
\* ------------------------------------------------------------------------

\* a K x K matrix is a tuple of K rows of K rationals; entry [i, j] for Python indices
Entry(mat, i, j) == mat[i + 1][j + 1]

\* np.eye(n_states)
Eye(n) ==
  Array([i \in 1..n |-> Array([j \in 1..n |-> IF i = j THEN <<1, 1>> ELSE <<0, 1>>])])

\* trans_count: pairs (states[k], states[k+1]) counted when both states are in range
TransCount(states, n) ==
  Array([i \in 1..n |-> Array([j \in 1..n |->
     Cardinality({k \in 1..(Len(states) - 1) :
        /\ 0 <= states[k] /\ states[k] < n
        /\ 0 <= states[k + 1] /\ states[k + 1] < n
        /\ states[k] = i - 1 /\ states[k + 1] = j - 1})])])

\* the matrix without the identity fallback: rows without counts stay zero and a
\* sequence shorter than 2 gives the zero matrix
CalculateEffectiveTransitionMatrixZeroRows(states, n) ==
  LET trans_count  == TransCount(states, n)
      state_counts == Array([i \in 1..n |-> SeqSum(trans_count[i])])
  IN  Array([i \in 1..n |->
         IF state_counts[i] > 0
           THEN Array([j \in 1..n |-> Frac(trans_count[i][j], state_counts[i])])
           ELSE Array([j \in 1..n |-> <<0, 1>>])])

\* _calculate_effective_transition_matrix
CalculateEffectiveTransitionMatrix(states, n) ==
  IF Len(states) < 2 THEN Eye(n)
  ELSE LET trans_count  == TransCount(states, n)
           state_counts == Array([i \in 1..n |-> SeqSum(trans_count[i])])
       IN  Array([i \in 1..n |->
              IF state_counts[i] > 0
                THEN Array([j \in 1..n |-> Frac(trans_count[i][j], state_counts[i])])
                ELSE Array([j \in 1..n |-> IF i = j THEN <<1, 1>> ELSE <<0, 1>>])])

\* default thresholds of _calculate_dwell_time_and_steps
min_threshold == 1

max_threshold == 20

\* offset of the end of the slice the mean after a transition is taken over
\* (extension_data[end_idx+1 : end_idx+11])
StepAfterStop == 11

\* all_points of _calculate_dwell_time_and_steps (Python indices)
AllPoints(mapped_states) == <<0>> \o DiffIndices(mapped_states) \o <<Len(mapped_states) - 1>>

\* step_size of the interval all_points[i] .. all_points[i+1]
StepSizeAt(x, start_idx, end_idx) ==
  FracSub(Mean(Slice(x, end_idx + 1,
                     Min2(end_idx + StepAfterStop, Len(x)))),
          Mean(Slice(x, start_idx, end_idx + 1)))

\* the threshold band with strict comparisons
StepInBandStrict(step_size, lo, hi) ==
  FracLess(<<lo, 1>>, FracAbs(step_size)) /\ FracLess(FracAbs(step_size), <<hi, 1>>)

\* min_threshold <= abs_step <= max_threshold
StepInBand(step_size, lo, hi) ==
  FracLeq(<<lo, 1>>, FracAbs(step_size)) /\ FracLeq(FracAbs(step_size), <<hi, 1>>)

\* the dwell list without the interval that starts at index 0
DwellTimesListInner(mapped_states, t) ==
  IF DiffIndices(mapped_states) = <<>> THEN <<>>
  ELSE LET p == AllPoints(mapped_states)
       IN  Array([i \in 1..(Len(p) - 3) |->
              <<At(mapped_states, p[i + 1]), At(t, p[i + 2]) - At(t, p[i + 1])>>])

\* _calculate_dwell_time_and_steps: the dwell_times list, [(state, dwell_time), ...]
DwellTimesList(mapped_states, t) ==
  IF DiffIndices(mapped_states) = <<>> THEN <<>>
  ELSE LET p == AllPoints(mapped_states)
       IN  Array([i \in 1..(Len(p) - 2) |->
              <<At(mapped_states, p[i]), At(t, p[i + 1]) - At(t, p[i])>>])

\* the intervals (positions in all_points) whose step passes the threshold band
RECURSIVE StepRecords(_, _, _, _, _, _)
StepRecords(p, i, x, t, lo, hi) ==
  IF i > Len(p) - 2 THEN <<>>
  ELSE (IF StepInBand(StepSizeAt(x, p[i], p[i + 1]), lo, hi)
          THEN << <<StepSizeAt(x, p[i], p[i + 1]), At(t, p[i + 1])>> >>
          ELSE <<>>)
       \o StepRecords(p, i + 1, x, t, lo, hi)

\* _calculate_dwell_time_and_steps: (dwell_times, step_sizes, step_times)
CalculateDwellTimeAndSteps(smap, hs, t, x, lo, hi) ==
  LET mapped_states == MappedStates(smap, hs)
      recs == IF DiffIndices(mapped_states) = <<>> THEN <<>>
              ELSE StepRecords(AllPoints(mapped_states), 1, x, t, lo, hi)
  IN  [dwell_times |-> DwellTimesList(mapped_states, t),
       step_sizes  |-> Array([k \in 1..Len(recs) |-> recs[k][1]]),
       step_times  |-> Array([k \in 1..Len(recs) |-> recs[k][2]])]

\* the positive entries of a list, in order
RECURSIVE Positive(_)
Positive(a) ==
  IF a = <<>> THEN <<>>
  ELSE (IF Head(a) > 0 THEN <<Head(a)>> ELSE <<>>) \o Positive(Tail(a))

\* the transition statistics with 0 as the average dwell time of a sequence
\* without transitions
CalculateTransitionRatesZeroAvg(states, t) ==
  LET transitions == Len(DiffIndices(states))
      total_time  == At(t, Len(t) - 1) - At(t, 0)
      change_points == PlusOne(DiffIndices(states))
      b == <<0>> \o change_points \o <<Len(states) - 1>>
      dwell == Positive(Array([i \in 1..(Len(b) - 1) |->
                           IF b[i + 1] < Len(t)
                             THEN At(t, b[i + 1]) - At(t, b[i]) ELSE 0]))
      fallback == <<0, 1>>
  IN  [transition_rate   |-> IF total_time > 0 THEN Frac(transitions, total_time) ELSE <<0, 1>>,
       avg_dwell_time    |-> IF change_points # <<>> /\ dwell # <<>> THEN Mean(dwell) ELSE fallback,
       min_dwell_time    |-> IF change_points # <<>> /\ dwell # <<>>
                               THEN <<SetMin(Unique(dwell)), 1>> ELSE fallback,
       total_transitions |-> transitions]

\* _calculate_transition_rates
CalculateTransitionRates(states, t) ==
  LET transitions == Len(DiffIndices(states))
      total_time  == At(t, Len(t) - 1) - At(t, 0)
      change_points == PlusOne(DiffIndices(states))
      b == <<0>> \o change_points \o <<Len(states) - 1>>
      dwell == Positive(Array([i \in 1..(Len(b) - 1) |->
                           IF b[i + 1] < Len(t)
                             THEN At(t, b[i + 1]) - At(t, b[i]) ELSE 0]))
      fallback == <<total_time, 1>>
  IN  [transition_rate   |-> IF total_time > 0 THEN Frac(transitions, total_time) ELSE <<0, 1>>,
       avg_dwell_time    |-> IF change_points # <<>> /\ dwell # <<>> THEN Mean(dwell) ELSE fallback,
       min_dwell_time    |-> IF change_points # <<>> /\ dwell # <<>>
                               THEN <<SetMin(Unique(dwell)), 1>> ELSE fallback,
       total_transitions |-> transitions]

\* ------------------------------------------------------------------------
\* Export (save_results): the dwell-time sheets and the step-size sheet
\* ------------------------------------------------------------------------

\* number of samples on each side of a transition the export averages over
ExportStepSpan == 10

\* the elements of a list of pairs whose first component is st, second components only
RECURSIVE SecondOf(_, _)
SecondOf(pairs, st) ==
  IF pairs = <<>> THEN <<>>
  ELSE (IF Head(pairs)[1] = st THEN <<Head(pairs)[2]>> ELSE <<>>) \o SecondOf(Tail(pairs), st)

\* the pairs of a list whose second component is positive
RECURSIVE PositiveDwells(_)
PositiveDwells(pairs) ==
  IF pairs = <<>> THEN <<>>
  ELSE (IF Head(pairs)[2] > 0 THEN <<Head(pairs)>> ELSE <<>>) \o PositiveDwells(Tail(pairs))

\* mapped_dwell_times of save_results
ExportDwellTimes(mapped_seq, t) ==
  LET change_points == PlusOne(DiffIndices(mapped_seq))
      b == <<0>> \o change_points \o <<Len(mapped_seq)>>
      \* segments whose end index is a valid time index
      valid == SelectSeq(Array([i \in 1..(Len(b) - 1) |-> i]), LAMBDA i : b[i + 1] < Len(t))
  IN  IF change_points = <<>> THEN <<>>
      ELSE PositiveDwells(Array([k \in 1..Len(valid) |->
             <<At(mapped_seq, b[valid[k]]),
               At(t, b[valid[k] + 1]) - At(t, b[valid[k]])>>]))

\* the rows of the "Step Sizes" sheet: (from name, to name, step size, time)
ExportStepRows(mapped_seq, t, x, n) ==
  LET change_points == PlusOne(DiffIndices(mapped_seq))
      Name(st) == IF st < Len(StateNames(n)) THEN StateNames(n)[st + 1] ELSE "State"
  IN  Array([k \in 1..Len(change_points) |->
         LET idx == change_points[k]
         IN  <<Name(At(mapped_seq, idx - 1)),
               Name(At(mapped_seq, idx)),
               FracSub(Mean(Slice(x, idx, Min2(idx + ExportStepSpan, Len(x)))),
                       Mean(Slice(x, Max2(0, idx - ExportStepSpan), idx))),
               At(t, idx)>>])

\* the dwell-time and step-size tables save_results writes
ExportTables(smap, hs, t, x, n) ==
  LET mapped_seq == MappedStates(smap, hs)
      mdt == ExportDwellTimes(mapped_seq, t)
  IN  [sheets |-> [state_idx \in 0..(n - 1) |-> SecondOf(mdt, state_idx)],
       steps  |-> ExportStepRows(mapped_seq, t, x, n)]

\* ------------------------------------------------------------------------
\* Hidden-State Inferencer (hmmlearn.GaussianHMM), as the window uses it
\* ------------------------------------------------------------------------

\* length of the array _apply_filter_to_data returns for n samples
\* (np.convolve(..., mode='same') returns max(n, kernel_size) samples)
ApplyFilterLen(n, filter_type, kernel_size) ==
  LET k == IF kernel_size % 2 = 0 THEN kernel_size + 1 ELSE kernel_size
  IN  IF filter_type = "Moving Average" THEN Max2(n, k) ELSE n

\* kernel_size_box.setValue(51)
DefaultKernelSize == 51

\* kernel size of the median filter the view applies without "Use Current Filter Settings"
ViewDefaultKernel == 3

\* kernel size of the median filter the window applies without "Use Current Filter Settings"
WindowDefaultKernel == 15

\* sample count above which _preprocess_data_for_hmm downsamples
DownsampleAbove == 10000

\* _apply_filter_to_data makes an even kernel size odd
OddKernel(kernel_size) == IF kernel_size % 2 = 0 THEN kernel_size + 1 ELSE kernel_size

\* kinetics_analysis_calculation: the filter behind extension_data_for_hmm
FilteredForHmm(n, use_current_filter, setting) ==
  IF use_current_filter
    THEN [filter_type |-> setting.filter_type, kernel_size |-> OddKernel(setting.kernel_size),
          n |-> ApplyFilterLen(n, setting.filter_type, setting.kernel_size)]
    ELSE [filter_type |-> "Median Filter", kernel_size |-> ViewDefaultKernel, n |-> n]

\* filtered_data[::ds_factor] of _preprocess_data_for_hmm: the samples kept
DownsampledLen(n) ==
  IF n > DownsampleAbove
    THEN LET ds_factor == IF n > 5 * DownsampleAbove THEN Max2(1, n \div DownsampleAbove)
                          ELSE Max2(1, (2 * n) \div DownsampleAbove)
         IN  (n + ds_factor - 1) \div ds_factor
    ELSE n

\* _preprocess_data_for_hmm: the filter behind the data the model is fitted on
PreprocessDataForHmm(n, use_current_filter, setting) ==
  IF use_current_filter
    THEN [filter_type |-> setting.filter_type, kernel_size |-> OddKernel(setting.kernel_size),
          n |-> DownsampledLen(ApplyFilterLen(n, setting.filter_type, setting.kernel_size))]
    ELSE [filter_type |-> "Median Filter", kernel_size |-> WindowDefaultKernel,
          n |-> DownsampledLen(n)]

\* (1 - p) * original + p * eye, entry by entry
Blend(original, eye, n, p, q) ==
  Array([i \in 1..n |-> Array([j \in 1..n |->
     FracAdd(FracMul(original[i][j], q), FracMul(eye[i][j], p))])])

\* each row of raw divided by its sum
DivideRows(raw, row_sum, n) ==
  Array([i \in 1..n |-> Array([j \in 1..n |-> FracDiv(raw[i][j], row_sum[i])])])

\* enhanced_transmat / enhanced_transmat.sum(axis=1, keepdims=True)
NormalizeRows(raw, n) ==
  DivideRows(raw, Array([i \in 1..n |-> FracSeqSum(raw[i])]), n)

\* the blend with the weights swapped: p * original_transmat + (1 - p) * I
EnhancedTransmatSwapped(original, n, penalty) ==
  NormalizeRows(Blend(original, Eye(n), n, Frac(100 - penalty, 100), Frac(penalty, 100)), n)

\* (1 - p) * original_transmat + p * I, then each row divided by its sum; p = penalty / 100
EnhancedTransmat(original, n, penalty) ==
  NormalizeRows(Blend(original, Eye(n), n, Frac(penalty, 100), Frac(100 - penalty, 100)), n)

\* the blend taken from the current model.transmat_ (original_transmat not restored)
UpdatedTransmatCompounding(model_transmat, original, n, penalty) ==
  IF penalty > 0 THEN EnhancedTransmat(model_transmat, n, penalty) ELSE model_transmat

\* model.transmat_ as _update_analysis leaves it: restored from original_transmat,
\* then replaced by the blend when the penalty factor is positive
UpdatedTransmat(model_transmat, original, n, penalty) ==
  IF penalty > 0 THEN EnhancedTransmat(original, n, penalty) ELSE original

\* model.predict(extension_data_for_hmm): a deterministic function of the fitted
\* parameters, the current transmat_ and the data; one label per sample
Predict(fit, transmat, len) ==
  IF transmat \in DOMAIN fit.decode THEN fit.decode[transmat] ELSE Array([k \in 1..len |-> 0])

\* a GaussianHMM object none of whose parameters is set
NoFit == [transmat |-> <<>>, decode |-> <<>>]

\* model.predict raises on a model whose fit raised before it set the parameters
PredictRaises(mdl) == ~mdl.fitted /\ mdl.fit = NoFit

\* ------------------------------------------------------------------------
\* Bounds and input sets of the session model
\* ------------------------------------------------------------------------

\* largest minimum-dwell value the user tries besides the default
MaxMinDwell == 2

\* largest smoothing window the user tries besides the default
MaxSmoothWindow == 3

\* defaults set by _create_parameter_tab
DefaultPenalty == 20

DefaultNIter == 200

DefaultMinDwell == 35

DefaultSmoothWindow == 9

\* spin box ranges set by _create_parameter_tab
PenaltyRange == 1..100

MinDwellRange == 1..200

SmoothWindowRange == 3..31

PenaltyValues == {DefaultPenalty, 60} \cap PenaltyRange

NIterValues == {DefaultNIter, 250}

MinDwellValues == ((1..MaxMinDwell) \cup {DefaultMinDwell}) \cap MinDwellRange

SmoothWindowValues == ((3..MaxSmoothWindow) \cup {DefaultSmoothWindow}) \cap SmoothWindowRange

\* the sessions a window is opened on: the state count and the selected window
\* (time s, extension nm)
Sessions ==
  { [n_states |-> 2, time |-> <<0, 1, 2, 3, 4, 5>>,   x |-> <<0, 0, 0, 5, 5, 5>>],
    [n_states |-> 3, time |-> <<0, 1, 3, 6, 10, 15>>, x |-> <<4, 0, 9, 1, 26, 2>>] }

\* filter settings of the parent view when the session is opened
FilterTypes == {"Median Filter", "Moving Average"}

KernelSizes == {3, 7}

\* the settings a window is opened under: one for each length the filtered signal can have
OpeningSettings ==
  { [filter_type |-> "Median Filter", kernel_size |-> 3],
    [filter_type |-> "Moving Average", kernel_size |-> 7] }

\* label sequences of the given length: a first run of r1 samples of label o, then
\* runs of r2 samples cycling through the labels
Pattern(len, n, r1, r2, o) ==
  Array([k \in 1..len |-> IF k <= r1 THEN o ELSE (o + 1 + ((k - r1 - 1) \div r2)) % n])

\* the paths a decode may return
DecodeSeqs(n, len) ==
  {Pattern(len, n, sh[1], sh[2], n - 1) : sh \in {<<3, 3>>, <<1, 2>>, <<2, 2>>}}

\* the transition matrix a fit ends with
FittedTransmat(n) ==
  Array([i \in 1..n |-> Array([j \in 1..n |->
     IF i = j THEN Frac(4, 5) ELSE Frac(1, 5 * (n - 1))])])

\* the transition matrices the window decodes with after a fit
DecodeMatrices(n) ==
  {EnhancedTransmat(FittedTransmat(n), n, p) : p \in PenaltyValues}

\* UpdatedTransmat on every model matrix and penalty of a session with k states
TabulateTransmat(k, P) ==
  [a \in {<<m, FittedTransmat(k), k, p>> :
            m \in {FittedTransmat(k)} \cup DecodeMatrices(k), p \in P} |->
     UpdatedTransmat(a[1], a[2], a[3], a[4])] @@ <<>>

\* the outcomes of model.fit: the fitted matrix and the decoder the fitted
\* parameters define (one path per transition matrix the window decodes with)
Fits(n, len) ==
  {[transmat |-> FittedTransmat(n), decode |-> d] :
     d \in [DecodeMatrices(n) -> DecodeSeqs(n, len)]}

\* the lengths extension_data_for_hmm can have
HmmLens ==
  {ApplyFilterLen(Len(se.x), ft, ks) : se \in Sessions, ft \in FilterTypes, ks \in KernelSizes}

\* ------------------------------------------------------------------------
\* Change-Point Segmenter (KineticsAnalysis._highlight_force_regions)
\* ------------------------------------------------------------------------

\* default of the threshold parameter (0.5), the value plotfig calls with
DefaultThreshold == <<1, 2>>

\* largest index distance at which a change point is merged into the kept one
MergeGap == 10

\* smallest number of index steps a region must span
MinRegionSamples == 10

\* 2 * np.gradient(force_data) for len(force_data) >= 2: central differences
\* inside, one-sided differences at the two ends
Gradient2(f) ==
  Array([k \in 1..Len(f) |->
     IF k = 1 THEN 2 * (f[2] - f[1])
     ELSE IF k = Len(f) THEN 2 * (f[k] - f[k - 1])
     ELSE f[k + 1] - f[k - 1]])

\* 2 * force_gradient
AbsGradient2(f) ==
  LET G == Gradient2(f)
  IN  Array([k \in 1..Len(f) |-> Abs(G[k])])

\* the squares of the entries
Squares(a) == Array([k \in 1..Len(a) |-> a[k] * a[k]])

\* len(G)^2 times the population variance of G (np.std squared)
VarianceN2(G) == Len(G) * SeqSum(Squares(G)) - SeqSum(G) * SeqSum(G)

\* force_gradient[i] > threshold * np.std(force_gradient), with g = 2 *
\* force_gradient[i], v = n^2 * var(2 * force_gradient) and threshold =
\* th[1] / th[2]: both sides are non-negative, so the test compares the squares
AboveThreshold(g, v, n, th) ==
  th[2] * th[2] * n * n * g * g > th[1] * th[1] * v

\* np.where(force_gradient > threshold * np.std(force_gradient))[0]
SegChangePoints(f, th) ==
  LET G == AbsGradient2(f)
      v == VarianceN2(G)
  IN  SelectSeq(Array([k \in 1..Len(f) |-> k - 1]),
                LAMBDA i : AboveThreshold(At(G, i), v, Len(f), th))

\* the change points kept by the merge loop: the first, then each one more
\* than MergeGap after the one kept last
RECURSIVE MergePoints(_, _)
MergePoints(merged_points, rest) ==
  IF rest = <<>> THEN merged_points
  ELSE IF Head(rest) - merged_points[Len(merged_points)] > MergeGap
         THEN MergePoints(Append(merged_points, Head(rest)), Tail(rest))
         ELSE MergePoints(merged_points, Tail(rest))

\* all_points: 0, the merged change points, len(time_data) - 1
SegAllPoints(t, f, th) ==
  LET cp == SegChangePoints(f, th)
  IN  <<0>> \o (IF cp = <<>> THEN <<>> ELSE MergePoints(<<cp[1]>>, Tail(cp)))
          \o <<Len(t) - 1>>

\* the loop over the intervals of all_points with the sample-count test
\* weakened to "not empty"
RECURSIVE SegRegionsAnyLength(_, _, _, _, _)
SegRegionsAnyLength(p, i, t, f, min_dur) ==
  IF i > Len(p) - 1 THEN <<>>
  ELSE LET start_idx == p[i]
           end_idx   == p[i + 1]
           region_duration == FracSub(At(t, end_idx), At(t, start_idx))
       IN  (IF end_idx - start_idx < 1 \/ FracLess(region_duration, <<min_dur, 1>>)
              THEN <<>>
              ELSE << [start_time |-> At(t, start_idx), end_time |-> At(t, end_idx),
                       mean_force |-> Mean(Slice(f, start_idx, end_idx)),
                       start_idx |-> start_idx, end_idx |-> end_idx,
                       duration |-> region_duration] >>)
           \o SegRegionsAnyLength(p, i + 1, t, f, min_dur)

\* the loop over the intervals of all_points: an interval of fewer than
\* MinRegionSamples index steps or shorter than min_region_duration is skipped,
\* every other one is appended to force_regions
RECURSIVE SegRegions(_, _, _, _, _)
SegRegions(p, i, t, f, min_dur) ==
  IF i > Len(p) - 1 THEN <<>>
  ELSE LET start_idx == p[i]
           end_idx   == p[i + 1]
           region_duration == FracSub(At(t, end_idx), At(t, start_idx))
       IN  (IF end_idx - start_idx < MinRegionSamples
                \/ FracLess(region_duration, <<min_dur, 1>>)
              THEN <<>>
              ELSE << [start_time |-> At(t, start_idx), end_time |-> At(t, end_idx),
                       mean_force |-> Mean(Slice(f, start_idx, end_idx)),
                       start_idx |-> start_idx, end_idx |-> end_idx,
                       duration |-> region_duration] >>)
           \o SegRegions(p, i + 1, t, f, min_dur)

\* force_regions after _highlight_force_regions(ax, time_data, force_data,
\* threshold): with fewer than 2 samples the method returns before it resets
\* the list
HighlightForceRegions(t, f, th, regions, min_dur) ==
  IF Len(t) < 2 \/ Len(f) < 2 THEN regions
  ELSE SegRegions(SegAllPoints(t, f, th), 1, t, f, min_dur)

\* ------------------------------------------------------------------------
\* State
\* ------------------------------------------------------------------------

VARIABLES
  pc,                       \* "new": before __init__; "open": window shown; "failed": __init__ raised
  time_data, extension_data,
  hmm_len,                  \* len(extension_data_for_hmm)
  n_states,
  model,                    \* [present, fitted, fit, transmat_, trained_on]; trained_on is
                            \* [filter_type, kernel_size, n]: how the fitted data was made
  original_transmat,        \* [present, mat]
  hidden_states, state_map, square_wave, effective_transmat,
  dwell_times, step_sizes, step_times, transition_stats,
  state_stats,              \* the rows of state_stats_layout: [name, occupancy, mean]
  transition_penalty_spin, n_iter_spin, min_dwell_time_spin,
  smoothing_window_spin, use_smoothing_check,
  updating,
  last_event,               \* [name, fits, decodes, raised]: the last handler run and what it executed
  exported,                 \* [written, sheets, steps]: tables written by the last handler
  force_regions,            \* KineticsAnalysis.force_regions: the regions of the last plot
  min_region_duration,      \* seconds
  plot_data,                \* [time, force]: the data the last plotfig drew
  points_for_save,          \* the middle-clicked points (xdata, ydata), oldest first
  region_highlight_rectangle, \* [present, xmin, xmax, on_axes]: the yellow span of the selected
                            \* region; on_axes is FALSE once fig.clear() has dropped its axes
  region_selector,          \* currentIndex of the region combo box
  filter_setting,           \* [filter_type, kernel_size]: filterselection and kernel_size_box
                            \* of the kinetics view
  used_current_filter,      \* the window was opened with "Use Current Filter Settings"
  hmm_data,                 \* [filter_type, kernel_size, n]: how extension_data_for_hmm was made
  tdms_file,                \* [file_size, channels, num_workers, need_force]: the file being read
  futures,                  \* per worker: [done, nth, data]: the chunk its process has returned,
                            \* as the nth process to return
  all_data,                 \* read_tdms_file: the merged channels of group Measured
  merged,                   \* number of chunks the merge loop has consumed
  df_list,                  \* the table read_tdms_file returns
  memo,                     \* [transmat, fits, post]: the values of UpdatedTransmat, Fits and
                            \* PostProcess on the session's arguments, tabulated at the start
  fn_in, fn_out, fn_pc      \* the function under study, its input and output

selVars == <<points_for_save, region_highlight_rectangle, region_selector>>

viewVars == <<force_regions, min_region_duration, plot_data, selVars>>

readerVars == <<tdms_file, futures, all_data, merged, df_list>>

parentVars == <<filter_setting, used_current_filter, hmm_data>>

dataVars == <<time_data, extension_data, hmm_len, n_states, memo, viewVars, readerVars,
              parentVars>>

spinVars == <<transition_penalty_spin, n_iter_spin, min_dwell_time_spin,
              smoothing_window_spin, use_smoothing_check>>

resultVars == <<state_map, square_wave, effective_transmat,
                dwell_times, step_sizes, step_times, transition_stats, state_stats>>

fnVars == <<fn_in, fn_out, fn_pc>>

vars == <<pc, dataVars, model, original_transmat, hidden_states, resultVars, spinVars,
          updating, last_event, exported, fnVars>>

NoExport == [written |-> FALSE, sheets |-> <<>>, steps |-> <<>>]

NoFn == [name |-> "none"]

NoPlot == [time |-> <<>>, force |-> <<>>]

\* region_highlight_rectangle = None
NoRectangle == [present |-> FALSE, xmin |-> Frac(0, 1), xmax |-> Frac(0, 1), on_axes |-> FALSE]

\* ax.axvspan(region['start_time'], region['end_time'], ...) on the current axes
Axvspan(region) ==
  [present |-> TRUE, xmin |-> region.start_time, xmax |-> region.end_time, on_axes |-> TRUE]

\* fig.clear(): the axes go, an artist drawn on them stays referenced
FigClear(rectangle) == [rectangle EXCEPT !.on_axes = FALSE]

NoData == [filter_type |-> "none", kernel_size |-> 0, n |-> 0]

\* the filter widgets as _setup_ui leaves them; no HMM window has been opened
ParentIdle ==
  /\ filter_setting = [filter_type |-> "Median Filter", kernel_size |-> DefaultKernelSize]
  /\ used_current_filter = TRUE
  /\ hmm_data = NoData

NoFile == [file_size |-> 0, channels |-> <<>>, num_workers |-> 0, need_force |-> FALSE]

\* no file is being read
ReaderIdle ==
  /\ tdms_file = NoFile
  /\ futures = <<>>
  /\ all_data = <<>>
  /\ merged = 0
  /\ df_list = <<>>

\* the kinetics view before its first plot (_initialize_data_attributes)
ViewFieldsInit ==
  /\ force_regions = <<>>
  /\ min_region_duration = 1
  /\ plot_data = NoPlot
  /\ points_for_save = <<>>
  /\ region_highlight_rectangle = NoRectangle
  /\ region_selector = 0

\* processed_extension_data of _train_initial_model, as made now
ProcessedData ==
  PreprocessDataForHmm(Len(extension_data), used_current_filter, filter_setting)

\* the attributes __init__ sets before _setup_ui
WindowFieldsInit ==
  /\ model = [present |-> FALSE, fitted |-> FALSE, fit |-> NoFit, transmat_ |-> <<>>,
              trained_on |-> NoData]
  /\ original_transmat = [present |-> FALSE, mat |-> <<>>]
  /\ hidden_states = <<>>
  /\ state_map = <<>>
  /\ square_wave = <<>>
  /\ dwell_times = <<>>
  /\ step_sizes = <<>>
  /\ step_times = <<>>
  /\ transition_stats = [transition_rate |-> <<0, 1>>, avg_dwell_time |-> <<0, 1>>,
                         min_dwell_time |-> <<0, 1>>, total_transitions |-> 0]
  /\ effective_transmat = <<>>
  /\ state_stats = <<>>
  /\ updating = FALSE

\* the spin boxes and check box as _create_parameter_tab leaves them
SpinsInit ==
  /\ transition_penalty_spin = DefaultPenalty
  /\ n_iter_spin = DefaultNIter
  /\ min_dwell_time_spin = DefaultMinDwell
  /\ smoothing_window_spin = DefaultSmoothWindow
  /\ use_smoothing_check = TRUE

\* ------------------------------------------------------------------------
\* _update_analysis
\* ------------------------------------------------------------------------

\* hidden_states after decode, minimum-dwell filter and smoothing
StabilizedStates(decoded, min_dwell_points, smoothing, window_size) ==
  LET dwelled == IF min_dwell_points > 1
                   THEN ApplyMinimumDwellTimeFilter(decoded, min_dwell_points) ELSE decoded
  IN  IF smoothing /\ window_size > 1 THEN SmoothStateSequence(dwelled, window_size) ELSE dwelled

\* the boolean mask (hidden_states == i) must have the length of extension_data
MappingRaises(hs, x) == Len(hs) # Len(x)

\* _update_analysis with the labels re-mapped to ranks before the filters
PostProcessMapFirst(k, time, x, decoded, min_dwell_points, smoothing, window_size) ==
  IF MappingRaises(decoded, x)
    THEN [raised |-> TRUE, hidden_states |-> decoded]
    ELSE LET hs == StabilizedStates(MappedStates(CreateStateMapping(decoded, x), decoded),
                                    min_dwell_points, smoothing, window_size)
             sm == CreateStateMapping(hs, x)
             ex == CalculateDwellTimeAndSteps(sm, hs, time, x, min_threshold, max_threshold)
         IN  [raised |-> FALSE,
              hidden_states |-> hs,
              state_map |-> sm,
              square_wave |-> CreateSquareWave(hs, x),
              effective_transmat |-> CalculateEffectiveTransitionMatrix(MappedStates(sm, hs), k),
              dwell_times |-> ex.dwell_times,
              step_sizes |-> ex.step_sizes,
              step_times |-> ex.step_times,
              transition_stats |-> CalculateTransitionRates(hs, time),
              state_stats |-> StateStatsRows(k, hs, sm, x)]

\* what _update_analysis computes from the decoded path: the stabilized
\* hidden_states and, unless the state mapping raises, the mapping and statistics
PostProcess(k, time, x, decoded, min_dwell_points, smoothing, window_size) ==
  LET hs == StabilizedStates(decoded, min_dwell_points, smoothing, window_size)
      sm == CreateStateMapping(hs, x)
      ex == CalculateDwellTimeAndSteps(sm, hs, time, x, min_threshold, max_threshold)
  IN  IF MappingRaises(hs, x)
        THEN [raised |-> TRUE, hidden_states |-> hs]
        ELSE [raised |-> FALSE,
              hidden_states |-> hs,
              state_map |-> sm,
              square_wave |-> CreateSquareWave(hs, x),
              effective_transmat |-> CalculateEffectiveTransitionMatrix(MappedStates(sm, hs), k),
              dwell_times |-> ex.dwell_times,
              step_sizes |-> ex.step_sizes,
              step_times |-> ex.step_times,
              transition_stats |-> CalculateTransitionRates(hs, time),
              state_stats |-> StateStatsRows(k, hs, sm, x)]

\* the paths Predict can return in a session
PredictedPaths(k, len) == DecodeSeqs(k, len) \cup {Array([i \in 1..len |-> 0])}

\* the arguments PostProcess is called with in session se decoding len samples
PostProcessArgs(se, len) ==
  {<<se.n_states, se.time, se.x, d, m, b, w>> :
     d \in PredictedPaths(se.n_states, len),
     m \in MinDwellValues, b \in BOOLEAN, w \in SmoothWindowValues}

\* PostProcess on every argument tuple of S
Tabulate(S) ==
  [a \in S |-> PostProcess(a[1], a[2], a[3], a[4], a[5], a[6], a[7])] @@ <<>>

\* the tables of session se decoding len samples
Memo(se, len) ==
  [transmat |-> TabulateTransmat(se.n_states, PenaltyValues),
   fits     |-> Fits(se.n_states, len),
   post     |-> Tabulate(PostProcessArgs(se, len))]

NoMemo == [transmat |-> <<>>, fits |-> {}, post |-> <<>>]

\* UpdatedTransmat, looked up where tabulated
TransmatUpdated(model_transmat, original, n, penalty) ==
  IF <<model_transmat, original, n, penalty>> \in DOMAIN memo.transmat
    THEN memo.transmat[<<model_transmat, original, n, penalty>>]
    ELSE UpdatedTransmat(model_transmat, original, n, penalty)

\* PostProcess, looked up in the session's table (PostProcessArgs holds every
\* argument tuple a session can call it with)
PostProcessed(k, time, x, decoded, min_dwell_points, smoothing, window_size) ==
  memo.post[<<k, time, x, decoded, min_dwell_points, smoothing, window_size>>]

Init ==
  /\ pc = "new"
  /\ \E se \in Sessions, setting \in OpeningSettings :
       /\ n_states = se.n_states
       /\ time_data = se.time
       /\ extension_data = se.x
       /\ filter_setting = setting
       /\ used_current_filter = TRUE
       /\ hmm_data = FilteredForHmm(Len(se.x), TRUE, setting)
       /\ hmm_len = hmm_data.n
       /\ memo = Memo(se, hmm_data.n)
  /\ ViewFieldsInit
  /\ ReaderIdle
  /\ WindowFieldsInit
  /\ SpinsInit
  /\ last_event = [name |-> "none", fits |-> 0, decodes |-> 0, raised |-> FALSE]
  /\ exported = NoExport
  /\ fn_in = NoFn /\ fn_out = NoFn /\ fn_pc = "off"

\* the body of _update_analysis run on model mdl and original_transmat orig with
\* the given widget values; sets the primed window attributes and reports in
\* raised whether an exception left the method early
UpdateAnalysis(mdl, orig, penalty, min_dwell_points, smoothing, window_size, raised) ==
  IF ~mdl.present \/ ~orig.present
    THEN /\ raised = FALSE
         /\ model' = mdl
         /\ UNCHANGED <<hidden_states, resultVars>>
    ELSE IF PredictRaises(mdl)
    THEN /\ raised = TRUE
         /\ model' = [mdl EXCEPT !.transmat_ =
                                   TransmatUpdated(mdl.transmat_, orig.mat, n_states, penalty)]
         /\ UNCHANGED <<hidden_states, resultVars>>
    ELSE \E T \in {TransmatUpdated(mdl.transmat_, orig.mat, n_states, penalty)} :
         \E r \in {PostProcessed(n_states, time_data, extension_data,
                                 Predict(mdl.fit, T, hmm_len),
                                 min_dwell_points, smoothing, window_size)} :
           /\ model' = [mdl EXCEPT !.transmat_ = T]
           /\ hidden_states' = r.hidden_states
           /\ raised = r.raised
           /\ IF r.raised
                THEN UNCHANGED resultVars
                ELSE /\ state_map' = r.state_map
                     /\ square_wave' = r.square_wave
                     /\ effective_transmat' = r.effective_transmat
                     /\ dwell_times' = r.dwell_times
                     /\ step_sizes' = r.step_sizes
                     /\ step_times' = r.step_times
                     /\ transition_stats' = r.transition_stats
                     /\ state_stats' = r.state_stats

\* number of model.predict calls one run of _update_analysis makes (a call that
\* raises included)
UpdateDecodes(mdl, orig) == IF mdl.present /\ orig.present THEN 1 ELSE 0

\* ------------------------------------------------------------------------
\* Handlers
\* ------------------------------------------------------------------------

\* __init__: _setup_ui, _train_initial_model, _update_analysis
Construct ==
  /\ pc = "new"
  /\ \E fit \in memo.fits, raised \in BOOLEAN :
       /\ original_transmat' = [present |-> TRUE, mat |-> fit.transmat]
       /\ UpdateAnalysis([present |-> TRUE, fitted |-> TRUE, fit |-> fit,
                          transmat_ |-> fit.transmat, trained_on |-> ProcessedData],
                         original_transmat', transition_penalty_spin, min_dwell_time_spin,
                         use_smoothing_check, smoothing_window_spin, raised)
       /\ pc' = IF raised THEN "failed" ELSE "open"
       /\ last_event' = [name |-> "construct", fits |-> 1,
                         decodes |-> 1, raised |-> raised]
  /\ UNCHANGED <<dataVars, spinVars, updating, exported, fnVars>>

\* a parameter-change slot wired to _retrain_model
OnParameterChangedRetrain(name, penalty, min_dwell_points, smoothing, window_size) ==
  /\ \E fit \in memo.fits, raised \in BOOLEAN :
       /\ UpdateAnalysis([present |-> TRUE, fitted |-> TRUE, fit |-> fit,
                          transmat_ |-> fit.transmat, trained_on |-> ProcessedData],
                         original_transmat, penalty, min_dwell_points,
                         smoothing, window_size, raised)
       /\ last_event' = [name |-> name, fits |-> 1, decodes |-> 1, raised |-> raised]
  /\ updating' = FALSE

\* _on_parameter_changed, entered with the widget values the event has just set
OnParameterChanged(name, penalty, min_dwell_points, smoothing, window_size) ==
  IF model.present /\ ~updating
    THEN /\ \E raised \in BOOLEAN :
              /\ UpdateAnalysis(model, original_transmat, penalty, min_dwell_points,
                                smoothing, window_size, raised)
              /\ last_event' = [name |-> name, fits |-> 0,
                                decodes |-> UpdateDecodes(model, original_transmat),
                                raised |-> raised]
         /\ updating' = FALSE
    ELSE /\ UNCHANGED <<model, hidden_states, resultVars, updating>>
         /\ last_event' = [name |-> name, fits |-> 0, decodes |-> 0, raised |-> FALSE]

\* transition_penalty_spin.valueChanged
SetTransitionPenalty ==
  /\ pc = "open"
  /\ \E v \in PenaltyValues \ {transition_penalty_spin} :
       /\ transition_penalty_spin' = v
       /\ OnParameterChanged("penalty", v, min_dwell_time_spin, use_smoothing_check,
                             smoothing_window_spin)
  /\ UNCHANGED <<pc, dataVars, original_transmat, n_iter_spin, min_dwell_time_spin,
                 smoothing_window_spin, use_smoothing_check, fnVars>>
  /\ exported' = NoExport

\* n_iter_spin.valueChanged
SetNIter ==
  /\ pc = "open"
  /\ \E v \in NIterValues \ {n_iter_spin} :
       /\ n_iter_spin' = v
       /\ OnParameterChanged("n_iter", transition_penalty_spin, min_dwell_time_spin,
                             use_smoothing_check, smoothing_window_spin)
  /\ UNCHANGED <<pc, dataVars, original_transmat, transition_penalty_spin, min_dwell_time_spin,
                 smoothing_window_spin, use_smoothing_check, fnVars>>
  /\ exported' = NoExport

\* min_dwell_time_spin.valueChanged
SetMinDwellTime ==
  /\ pc = "open"
  /\ \E v \in MinDwellValues \ {min_dwell_time_spin} :
       /\ min_dwell_time_spin' = v
       /\ OnParameterChanged("min_dwell", transition_penalty_spin, v, use_smoothing_check,
                             smoothing_window_spin)
  /\ UNCHANGED <<pc, dataVars, original_transmat, transition_penalty_spin, n_iter_spin,
                 smoothing_window_spin, use_smoothing_check, fnVars>>
  /\ exported' = NoExport

\* smoothing_window_spin.valueChanged
SetSmoothingWindow ==
  /\ pc = "open"
  /\ \E v \in SmoothWindowValues \ {smoothing_window_spin} :
       /\ smoothing_window_spin' = v
       /\ OnParameterChanged("smoothing_window", transition_penalty_spin, min_dwell_time_spin,
                             use_smoothing_check, v)
  /\ UNCHANGED <<pc, dataVars, original_transmat, transition_penalty_spin, n_iter_spin,
                 min_dwell_time_spin, use_smoothing_check, fnVars>>
  /\ exported' = NoExport

\* use_smoothing_check.stateChanged
SetUseSmoothing ==
  /\ pc = "open"
  /\ \E v \in BOOLEAN \ {use_smoothing_check} :
       /\ use_smoothing_check' = v
       /\ OnParameterChanged("use_smoothing", transition_penalty_spin, min_dwell_time_spin,
                             v, smoothing_window_spin)
  /\ UNCHANGED <<pc, dataVars, original_transmat, transition_penalty_spin, n_iter_spin,
                 min_dwell_time_spin, smoothing_window_spin, fnVars>>
  /\ exported' = NoExport

\* _retrain_model: _train_initial_model, _update_analysis
RetrainModel ==
  /\ pc = "open"
  /\ \E fit \in memo.fits, raised \in BOOLEAN :
       /\ original_transmat' = [present |-> TRUE, mat |-> fit.transmat]
       /\ UpdateAnalysis([present |-> TRUE, fitted |-> TRUE, fit |-> fit,
                          transmat_ |-> fit.transmat, trained_on |-> ProcessedData],
                         original_transmat', transition_penalty_spin, min_dwell_time_spin,
                         use_smoothing_check, smoothing_window_spin, raised)
       /\ last_event' = [name |-> "retrain", fits |-> 1, decodes |-> 1, raised |-> raised]
  /\ exported' = NoExport
  /\ UNCHANGED <<pc, dataVars, spinVars, updating, fnVars>>

\* save_results (Export Results button) with the "Save Dwell Times" box checked or not
SaveResults ==
  /\ pc = "open"
  /\ \E save_dwell_times_check \in BOOLEAN :
       exported' = IF save_dwell_times_check
                     THEN [written |-> TRUE] @@
                          ExportTables(state_map, hidden_states, time_data, extension_data, n_states)
                     ELSE NoExport
  /\ last_event' = [name |-> "save", fits |-> 0, decodes |-> 0, raised |-> FALSE]
  /\ UNCHANGED <<pc, dataVars, model, original_transmat, hidden_states, resultVars, spinVars,
                 updating, fnVars>>

\* the parameters a model.fit that raises leaves in the model object: none, or
\* those of its last completed step
FitLeftovers == {NoFit} \cup memo.fits

\* _train_initial_model when model.fit raises: the new GaussianHMM is already
\* assigned to self.model, original_transmat is not reached
TrainRaises ==
  /\ \E left \in FitLeftovers :
       model' = [present |-> TRUE, fitted |-> FALSE, fit |-> left, transmat_ |-> left.transmat,
                 trained_on |-> ProcessedData]
  /\ UNCHANGED <<original_transmat, hidden_states, resultVars>>

\* __init__ when model.fit raises: the exception leaves the constructor
ConstructFitRaises ==
  /\ pc = "new"
  /\ TrainRaises
  /\ pc' = "failed"
  /\ last_event' = [name |-> "construct", fits |-> 1, decodes |-> 0, raised |-> TRUE]
  /\ UNCHANGED <<dataVars, spinVars, updating, exported, fnVars>>

\* _retrain_model when model.fit raises: the exception leaves the slot before
\* _update_analysis, the window stays open
RetrainFitRaises ==
  /\ pc = "open"
  /\ TrainRaises
  /\ last_event' = [name |-> "retrain", fits |-> 1, decodes |-> 0, raised |-> TRUE]
  /\ exported' = NoExport
  /\ UNCHANGED <<pc, dataVars, spinVars, updating, fnVars>>

Next ==
  \/ Construct
  \/ SetTransitionPenalty
  \/ SetNIter
  \/ SetMinDwellTime
  \/ SetSmoothingWindow
  \/ SetUseSmoothing
  \/ RetrainModel
  \/ SaveResults

Spec == Init /\ [][Next]_vars

\* the window with fits that may raise
NextFit ==
  \/ Next
  \/ ConstructFitRaises
  \/ RetrainFitRaises

\* a two-state session whose filtered signal has the length of the window
InitFit ==
  /\ Init
  /\ n_states = 2
  /\ hmm_len = Len(extension_data)

SpecFit == InitFit /\ [][NextFit]_vars

\* ------------------------------------------------------------------------
\* The pipeline functions on their own: an input is drawn, then the function
\* is applied (fn_pc: "in" -> "once" -> "twice" for the filter, "in" -> "done"
\* for the others)
\* ------------------------------------------------------------------------

\* longest label sequence of the exhaustive inputs
MaxSeqLen == 4

\* length of the long alternating label sequences
LongLen == 12

\* largest min_dwell_time the filter is tried with
MaxDwellArg == 3

\* number of samples of the two-level signals
StepLen == 6

\* longest outer run of the three-run label sequences
MaxSideRun == 3

\* length of the middle run of the sequences with a run longer than the step window
LongRunLen == 12

\* longest label sequence the smoothing filter is tried on
SmoothLen == 6

\* largest window size the smoothing filter is tried with
MaxWindowArg == 5

\* length of the two-label sequences smoothed with the wider windows
SmoothRunLen == 9

\* the wider smoothing windows
WideWindows == {7, 9}

\* all label sequences over 0..k-1 of the given length
Seqs(k, len) == {Array(f) : f \in [1..len -> 0..(k - 1)]}

\* a, b, then c and a in turn
LongSeq(len, a, b, c) ==
  Array([i \in 1..len |-> IF i = 1 THEN a ELSE IF i = 2 THEN b
                          ELSE IF i % 2 = 1 THEN c ELSE a])

LongSeqs ==
  {LongSeq(LongLen, a, b, c) : a \in {0}, b \in {1, 2}, c \in {1, 2}}

\* p samples of a, one of b, q of c
ThreeRuns(p, q, a, b, c) ==
  Array([i \in 1..(p + 1 + q) |-> IF i <= p THEN a ELSE IF i = p + 1 THEN b ELSE c])

\* a run of one sample between two longer runs of equal or different length
ThreeRunSeqs ==
  {ThreeRuns(p, q, 0, 1, c) : p \in 2..MaxSideRun, q \in 2..MaxSideRun, c \in {0, 2}}

\* time stamps of the first len samples: 0, 1, 3, 6, 10, ... (uneven sampling)
Ticks(len) == Array([i \in 1..len |-> ((i - 1) * i) \div 2])

\* a signal that sits near 10 * label with a small sample-dependent offset
LevelSignal(states) == Array([i \in 1..Len(states) |-> 10 * states[i] + (i % 3)])

\* a noise-free two-level signal: level a up to Python index c, level a + d after it
TwoLevel(len, c, a, d) == Array([i \in 1..len |-> IF i - 1 <= c THEN a ELSE a + d])

\* labels l1 up to Python index c, l2 after it
OneJump(len, c, l1, l2) == Array([i \in 1..len |-> IF i - 1 <= c THEN l1 ELSE l2])

\* jumps on, inside and outside the default threshold band
Jumps == {-21, -20, -5, -1, 1, 5, 20, 21}

FnIn(name, k, states, m, t, x, lo, hi) ==
  [name |-> name, k |-> k, states |-> states, m |-> m, t |-> t, x |-> x, lo |-> lo, hi |-> hi]

FilterInputs ==
  {FnIn("filter", 3, st, m, <<>>, <<>>, 0, 0) :
     st \in UNION {Seqs(3, len) : len \in 0..MaxSeqLen} \cup LongSeqs \cup ThreeRunSeqs,
     m \in 1..MaxDwellArg}

MatrixInputs ==
  UNION {{FnIn("matrix", k, st, 0, <<>>, <<>>, 0, 0) :
            st \in UNION {Seqs(k, len) : len \in 0..MaxSeqLen}} : k \in {2, 3}}

\* stabilized sequences with their time stamps and signal, thresholds at the defaults
RunInputs ==
  {FnIn("extract", 3, st, 0, Ticks(Len(st)), LevelSignal(st), min_threshold, max_threshold) :
     st \in UNION {Seqs(3, len) : len \in 1..MaxSeqLen}}

\* two-level signals with one jump of d after Python index c, decoded with one
\* transition at the jump; thresholds at the defaults or with a raised minimum
StepInputs ==
  {FnIn("extract", 2, OneJump(StepLen, c, l[1], l[2]), 0, Ticks(StepLen),
        TwoLevel(StepLen, c, a, d), lo, max_threshold) :
     c \in 0..(StepLen - 2), l \in {<<0, 1>>, <<1, 0>>}, a \in {0, 30}, d \in Jumps,
     lo \in {min_threshold, 3}}

\* a run longer than the step window between two short runs, with time stamps
\* and a signal near 10 * label
LongRunInputs ==
  {FnIn("extract", 3, st, 0, Ticks(Len(st)), LevelSignal(st), min_threshold, max_threshold) :
     st \in {[i \in 1..(p + LongRunLen + q) |->
               IF i <= p THEN a ELSE IF i <= p + LongRunLen THEN b ELSE c] :
             p \in 1..2, q \in 1..3, a \in {0, 2}, b \in {1}, c \in {0, 2}}}

\* label sequences handed to the smoothing filter with a window size in m
SmoothInputs ==
  {FnIn("smooth", 3, st, w, <<>>, <<>>, 0, 0) :
     st \in UNION {Seqs(3, len) : len \in 0..SmoothLen}, w \in 1..MaxWindowArg}

\* two-label sequences handed to the smoothing filter with a wider window
WideSmoothInputs ==
  {FnIn("smooth", 2, st, w, <<>>, <<>>, 0, 0) : st \in Seqs(2, SmoothRunLen), w \in WideWindows}

FnInputs ==
  FilterInputs \cup MatrixInputs \cup RunInputs \cup StepInputs \cup SmoothInputs
    \cup LongRunInputs \cup WideSmoothInputs

FnOut(once, twice, mat, ex, stats) ==
  [once |-> once, twice |-> twice, mat |-> mat, ex |-> ex, stats |-> stats, passes |-> <<>>]

NoExtract == [dwell_times |-> <<>>, step_sizes |-> <<>>, step_times |-> <<>>]

NoStats == [transition_rate |-> <<0, 1>>, avg_dwell_time |-> <<0, 1>>,
            min_dwell_time |-> <<0, 1>>, total_transitions |-> 0]

InitFn ==
  /\ pc = "fn"
  /\ n_states = 2 /\ time_data = <<>> /\ extension_data = <<>> /\ hmm_len = 0
  /\ memo = NoMemo
  /\ ViewFieldsInit
  /\ ReaderIdle
  /\ ParentIdle
  /\ WindowFieldsInit
  /\ SpinsInit
  /\ last_event = [name |-> "none", fits |-> 0, decodes |-> 0, raised |-> FALSE]
  /\ exported = NoExport
  /\ fn_in \in FnInputs
  /\ fn_out = FnOut(<<>>, <<>>, <<>>, NoExtract, NoStats)
  /\ fn_pc = "in"

windowVars == <<pc, dataVars, model, original_transmat, hidden_states, resultVars, spinVars,
                updating, last_event, exported>>

\* _apply_minimum_dwell_time_filter(states, min_dwell_time)
FilterOnce ==
  /\ fn_pc = "in" /\ fn_in.name = "filter"
  /\ fn_out' = [fn_out EXCEPT !.once = ApplyMinimumDwellTimeFilter(fn_in.states, fn_in.m),
                               !.passes = FilterPasses(fn_in.states, fn_in.m)]
  /\ fn_pc' = "once"
  /\ UNCHANGED <<windowVars, fn_in>>

\* the filter applied to its own output
FilterTwice ==
  /\ fn_pc = "once" /\ fn_in.name = "filter"
  /\ fn_out' = [fn_out EXCEPT !.twice = ApplyMinimumDwellTimeFilter(fn_out.once, fn_in.m)]
  /\ fn_pc' = "twice"
  /\ UNCHANGED <<windowVars, fn_in>>

\* _calculate_effective_transition_matrix(states)
EffectiveMatrix ==
  /\ fn_pc = "in" /\ fn_in.name = "matrix"
  /\ fn_out' = [fn_out EXCEPT !.mat = CalculateEffectiveTransitionMatrix(fn_in.states, fn_in.k)]
  /\ fn_pc' = "done"
  /\ UNCHANGED <<windowVars, fn_in>>

\* _create_state_mapping_and_square_wave and _calculate_statistics on a stabilized sequence
Extract ==
  /\ fn_pc = "in" /\ fn_in.name = "extract"
  /\ fn_out' = [fn_out EXCEPT
                  !.ex = CalculateDwellTimeAndSteps(CreateStateMapping(fn_in.states, fn_in.x),
                                                    fn_in.states, fn_in.t, fn_in.x,
                                                    fn_in.lo, fn_in.hi),
                  !.stats = CalculateTransitionRates(fn_in.states, fn_in.t)]
  /\ fn_pc' = "done"
  /\ UNCHANGED <<windowVars, fn_in>>

\* _smooth_state_sequence(states, window_size)
Smooth ==
  /\ fn_pc = "in" /\ fn_in.name = "smooth"
  /\ fn_out' = [fn_out EXCEPT !.once = SmoothStateSequence(fn_in.states, fn_in.m)]
  /\ fn_pc' = "done"
  /\ UNCHANGED <<windowVars, fn_in>>

NextFn ==
  \/ Smooth
  \/ FilterOnce
  \/ FilterTwice
  \/ EffectiveMatrix
  \/ Extract

SpecFn == InitFn /\ [][NextFn]_vars

\* ------------------------------------------------------------------------
\* The kinetics view's force regions: plotfig calls the segmenter on the data
\* it draws (the whole file or the selected slice)
\* ------------------------------------------------------------------------

\* number of samples of the long trajectories
SegLen == 24

\* sampling steps (seconds) of the trajectories
SegSteps == {<<1, 5>>, <<1, 10>>, <<1, 20>>}

\* time stamps of n samples taken every dt seconds
SegTime(n, dt) == Array([k \in 1..n |-> Frac((k - 1) * dt[1], dt[2])])

\* a linear force ramp of slope sl per sample (sl = 0: constant force)
RampForce(n, sl) == Array([k \in 1..n |-> sl * (k - 1)])

\* a smooth, monotonically increasing, non-linear ramp
QuadForce(n) == Array([k \in 1..n |-> (k - 1) * (k - 1)])

\* a constant force with one jump of d at Python index c
JumpForce(n, c, d) == Array([k \in 1..n |-> IF k - 1 < c THEN 0 ELSE d])

SegLens == {0, 1, 2, SegLen \div 2, SegLen}

\* the force profiles of n samples, each with its kind
SegForces(n) ==
  {[kind |-> "ramp", force |-> RampForce(n, sl)] : sl \in {0, 1}}
  \cup {[kind |-> "ramp", force |-> QuadForce(n)]}
  \cup {[kind |-> "jump", force |-> JumpForce(n, c, 5)] :
          c \in {3, n \div 2, n - 3} \cap 1..(n - 1)}

\* the data a plot can draw
SegInputs ==
  UNION {{[kind |-> fk.kind, time |-> SegTime(n, dt), force |-> fk.force] :
            fk \in SegForces(n), dt \in SegSteps} : n \in SegLens}

\* values the user gives min_duration_spin
MinDurationValues == {0, 1, 2}

hmmVars == <<pc, time_data, extension_data, hmm_len, n_states, memo, model, original_transmat,
             hidden_states, resultVars, spinVars, updating, last_event, exported, fnVars,
             readerVars, parentVars>>

\* select_force_region as region_selector.currentTextChanged calls it with
\* currentIndex selected_idx: nothing happens without regions or with an index
\* outside them; otherwise the manual points go and the region is highlighted
\* (a failing remove() of the old rectangle is swallowed, the attribute is
\* overwritten either way)
SelectForceRegionAt(regions, selected_idx, points, rectangle) ==
  IF regions = <<>> \/ selected_idx < 0 \/ selected_idx >= Len(regions)
    THEN [points_for_save |-> points, region_highlight_rectangle |-> rectangle]
    ELSE [points_for_save |-> <<>>,
          region_highlight_rectangle |-> Axvspan(At(regions, selected_idx))]

\* the selection after plotfig has drawn regions: fig.clear(), then
\* _update_region_selector refills the combo box, whose first addItem makes
\* index 0 current and emits currentTextChanged
ReplottedSelection(regions, points, rectangle) ==
  SelectForceRegionAt(regions, 0, points, FigClear(rectangle))

\* plotfig's effect on the selection, given the regions it leaves
RedrawSelection(regions) ==
  LET sel == ReplottedSelection(regions, points_for_save, region_highlight_rectangle)
  IN  /\ points_for_save' = sel.points_for_save
      /\ region_highlight_rectangle' = sel.region_highlight_rectangle
      /\ region_selector' = 0

\* the view after __init__: the first plotfig has run on the loaded data
InitSeg ==
  /\ pc = "view"
  /\ n_states = 2 /\ time_data = <<>> /\ extension_data = <<>> /\ hmm_len = 0
  /\ memo = NoMemo
  /\ WindowFieldsInit
  /\ SpinsInit
  /\ last_event = [name |-> "none", fits |-> 0, decodes |-> 0, raised |-> FALSE]
  /\ exported = NoExport
  /\ fn_in = NoFn /\ fn_out = NoFn /\ fn_pc = "off"
  /\ ReaderIdle
  /\ ParentIdle
  /\ min_region_duration = 1
  /\ plot_data \in SegInputs
  /\ force_regions = HighlightForceRegions(plot_data.time, plot_data.force, DefaultThreshold,
                                           <<>>, 1)
  /\ LET sel == ReplottedSelection(force_regions, <<>>, NoRectangle)
     IN  /\ points_for_save = sel.points_for_save
         /\ region_highlight_rectangle = sel.region_highlight_rectangle
  /\ region_selector = 0

\* plotfig on newly selected data: _highlight_force_regions(ax, axis_x, axis_y_2)
Plotfig ==
  /\ pc = "view"
  /\ \E d \in SegInputs \ {plot_data} :
       /\ plot_data' = d
       /\ force_regions' = HighlightForceRegions(d.time, d.force, DefaultThreshold,
                                                 force_regions, min_region_duration)
  /\ RedrawSelection(force_regions')
  /\ UNCHANGED <<hmmVars, min_region_duration>>

\* on_min_duration_changed: the new value is stored and the plot redrawn
OnMinDurationChanged ==
  /\ pc = "view"
  /\ \E value \in MinDurationValues \ {min_region_duration} :
       /\ min_region_duration' = value
       /\ force_regions' = HighlightForceRegions(plot_data.time, plot_data.force,
                                                 DefaultThreshold, force_regions, value)
  /\ RedrawSelection(force_regions')
  /\ UNCHANGED <<hmmVars, plot_data>>

NextSeg ==
  \/ Plotfig
  \/ OnMinDurationChanged

SpecSeg == InitSeg /\ [][NextSeg]_vars

\* ------------------------------------------------------------------------
\* TDMS reader (tdms_reader.py): read_tdms_file with its pool of worker
\* processes (specification SpecRead)
\* ------------------------------------------------------------------------

\* most samples a channel of the files read holds
MaxChannelLen == 4

\* the padding value np.nan (samples are positive integers)
NaN == -1

\* channel[chunk_start:chunk_end]: a slice, cut off at the end of the channel
ChannelSlice(a, chunk_start, chunk_end) ==
  LET lo == Min2(chunk_start, Len(a))
      hi == Min2(chunk_end, Len(a))
  IN  IF lo >= hi THEN <<>> ELSE SubSeq(a, lo + 1, hi)

\* read_tdms_chunk: every channel of the group cut to the chunk
ReadTdmsChunk(channels, chunk_start, chunk_end) ==
  [c \in DOMAIN channels |-> ChannelSlice(channels[c], chunk_start, chunk_end)]

\* chunk_size, start_indices and end_indices of read_tdms_file
ChunkSize(file_size, num_workers) == file_size \div num_workers

StartIndices(file_size, num_workers) ==
  Array([i \in 1..num_workers |-> (i - 1) * ChunkSize(file_size, num_workers)])

\* end_indices with every chunk ending at a multiple of chunk_size
EndIndicesEven(file_size, num_workers) ==
  Array([i \in 1..num_workers |-> i * ChunkSize(file_size, num_workers)])

\* end_indices: the last chunk is made to end at file_size
EndIndices(file_size, num_workers) ==
  Array([i \in 1..num_workers |->
           IF i = num_workers THEN file_size ELSE i * ChunkSize(file_size, num_workers)])

\* all_data[group][channel].extend(channel_data) for every channel of a chunk
ExtendAll(data, chunk) ==
  [c \in DOMAIN chunk |-> (IF c \in DOMAIN data THEN data[c] ELSE <<>>) \o chunk[c]]

\* df_list_dic[k] += [np.nan] * (max_len - len(df_list_dic[k]))
PadToMaxLen(data) ==
  LET max_len == SetMax({Len(data[c]) : c \in DOMAIN data})
  IN  [c \in DOMAIN data |-> data[c] \o [k \in 1..(max_len - Len(data[c])) |-> NaN]]

\* calculate_force on one magnet height (NaN stays NaN); the force model itself
\* is not evaluated
CalculateForce(h) == IF h = NaN THEN NaN ELSE 1000 + h

\* the table with the column 'force pN' computed from 'mag height mm'
WithForce(table) ==
  [c \in DOMAIN table \cup {"force pN"} |->
     IF c = "force pN"
       THEN Array([k \in 1..Len(table["mag height mm"]) |->
                     CalculateForce(table["mag height mm"][k])])
       ELSE table[c]]

\* samples of a channel: distinct values that tell channel and position
ChannelData(c, len) == Array([k \in 1..len |-> 10 * c + k])

\* the channels of group Measured of a file
ChannelSets ==
  {[c \in {"mag height mm", "ext nm"} |->
      IF c = "mag height mm" THEN ChannelData(1, l1) ELSE ChannelData(2, l2)] :
     l1 \in 0..MaxChannelLen, l2 \in {0, MaxChannelLen}}

\* bytes of a file beyond one byte per sample of its longest channel
ExtraBytes == {0, 2, 9}

NumWorkersValues == {1, 3, 4}

TdmsFiles ==
  {[file_size |-> SetMax({Len(ch[c]) : c \in DOMAIN ch}) + e, channels |-> ch,
    num_workers |-> w, need_force |-> nf] :
     ch \in ChannelSets, e \in ExtraBytes, w \in NumWorkersValues, nf \in BOOLEAN}

NoFuture == [done |-> FALSE, nth |-> 0, data |-> <<>>]

\* read_tdms_file up to the submission of the chunks to the pool
InitRead ==
  /\ pc = "map"
  /\ n_states = 2 /\ time_data = <<>> /\ extension_data = <<>> /\ hmm_len = 0
  /\ memo = NoMemo
  /\ WindowFieldsInit
  /\ SpinsInit
  /\ last_event = [name |-> "none", fits |-> 0, decodes |-> 0, raised |-> FALSE]
  /\ exported = NoExport
  /\ fn_in = NoFn /\ fn_out = NoFn /\ fn_pc = "off"
  /\ ViewFieldsInit
  /\ ParentIdle
  /\ tdms_file \in TdmsFiles
  /\ futures = [i \in 1..tdms_file.num_workers |-> NoFuture]
  /\ all_data = <<>>
  /\ merged = 0
  /\ df_list = <<>>

otherVars == <<time_data, extension_data, hmm_len, n_states, memo, viewVars, parentVars, model,
               original_transmat, hidden_states, resultVars, spinVars, updating, last_event,
               exported, fnVars>>

\* a worker process returns its chunk; the processes finish in any order
WorkerReturns ==
  /\ pc = "map"
  /\ \E i \in 1..Len(futures) :
       /\ ~futures[i].done
       /\ futures' = [futures EXCEPT ![i] =
            [done |-> TRUE,
             nth  |-> 1 + Cardinality({k \in 1..Len(futures) : futures[k].done}),
             data |-> ReadTdmsChunk(tdms_file.channels,
                        StartIndices(tdms_file.file_size, tdms_file.num_workers)[i],
                        EndIndices(tdms_file.file_size, tdms_file.num_workers)[i])]]
  /\ UNCHANGED <<pc, tdms_file, all_data, merged, df_list, otherVars>>

\* one turn of the loop over executor.map: the results come in the order of
\* submission, each as soon as its worker has returned
MergeChunk ==
  /\ pc = "map"
  /\ merged < Len(futures)
  /\ futures[merged + 1].done
  /\ all_data' = ExtendAll(all_data, futures[merged + 1].data)
  /\ merged' = merged + 1
  /\ UNCHANGED <<pc, tdms_file, futures, df_list, otherVars>>

\* the loop is exhausted: padding, DataFrame.from_dict and the force column
BuildTable ==
  /\ pc = "map"
  /\ merged = Len(futures)
  /\ df_list' = IF tdms_file.need_force THEN WithForce(PadToMaxLen(all_data))
                ELSE PadToMaxLen(all_data)
  /\ pc' = "table"
  /\ UNCHANGED <<tdms_file, futures, all_data, merged, otherVars>>

NextRead ==
  \/ WorkerReturns
  \/ MergeChunk
  \/ BuildTable

SpecRead == InitRead /\ [][NextRead]_vars

\* ------------------------------------------------------------------------
\* Properties of the window (specification Spec)
\* ------------------------------------------------------------------------

\* C1: once an analysis update has completed (the window is open), the stabilized
\* sequence has as many entries as the time and extension arrays, and every
\* label of it has a rank in state_map that lies in 0..K-1
C1_LengthAndRanks ==
  pc = "open" =>
    /\ Len(hidden_states) = Len(time_data)
    /\ Len(hidden_states) = Len(extension_data)
    /\ \A k \in 1..Len(hidden_states) :
         /\ hidden_states[k] \in DOMAIN state_map
         /\ state_map[hidden_states[k]] \in 0..(n_states - 1)

\* a three-state window whose stabilized sequence uses all three labels
C1_Witness ==
  /\ pc = "open"
  /\ last_event.decodes = 1
  /\ n_states = 3
  /\ Cardinality(Unique(hidden_states)) = 3
  /\ {state_map[l] : l \in Unique(hidden_states)} = 0..2

\* C4: the results shown are a function of the fitted model and the current
\* parameter values alone: whatever sequence of parameter changes led to the
\* current values, the stabilized sequence, the effective transition matrix and
\* the dwell/step records are those of one update run on the fitted model with
\* these values
C4_HistoryIndependent ==
  pc = "open" =>
    LET T == UpdatedTransmat(original_transmat.mat, original_transmat.mat, n_states,
                             transition_penalty_spin)
        r == PostProcess(n_states, time_data, extension_data,
                         Predict(model.fit, T, hmm_len),
                         min_dwell_time_spin, use_smoothing_check, smoothing_window_spin)
    IN  /\ model.transmat_ = T
        /\ hidden_states = r.hidden_states
        /\ state_map = r.state_map
        /\ effective_transmat = r.effective_transmat
        /\ dwell_times = r.dwell_times
        /\ step_sizes = r.step_sizes
        /\ step_times = r.step_times
        /\ transition_stats = r.transition_stats

\* an update re-run with unchanged decode parameters (iteration count changed)
\* after the penalty and the minimum dwell time were moved off their defaults
C4_Witness ==
  /\ pc = "open"
  /\ last_event.name = "n_iter"
  /\ last_event.decodes = 1
  /\ transition_penalty_spin # DefaultPenalty
  /\ min_dwell_time_spin # DefaultMinDwell
  /\ dwell_times # <<>>

\* C5: a parameter-change event never runs the fit: it leaves the fitted model
\* and original_transmat as they were and decodes once; the fit runs only in
\* window construction and in Retrain
C5_NoFitOnParameterChange ==
  [][/\ last_event'.name \in {"penalty", "n_iter", "min_dwell", "smoothing_window",
                              "use_smoothing"}
          => /\ last_event'.fits = 0
             /\ last_event'.decodes = 1
             /\ model'.fit = model.fit
             /\ original_transmat' = original_transmat
     /\ (last_event'.fits > 0 \/ model'.fit # model.fit)
          => last_event'.name \in {"construct", "retrain"}]_vars

\* a minimum-dwell change that re-decoded and changed the stabilized sequence
C5_Witness ==
  /\ pc = "open"
  /\ last_event = [name |-> "min_dwell", fits |-> 0, decodes |-> 1, raised |-> FALSE]
  /\ min_dwell_time_spin = 1
  /\ Len(DiffIndices(hidden_states)) >= 2

\* C8: the dwell-time sheets and the step-size sheet written by save_results
\* hold exactly the extractor's records of the last update: per state the same
\* durations in the same order, and the same step sizes and step times
C8_ExportEqualsExtractor ==
  exported.written =>
    /\ \A st \in 0..(n_states - 1) : exported.sheets[st] = SecondOf(dwell_times, st)
    /\ Len(exported.steps) = Len(step_sizes)
    /\ \A k \in 1..Len(exported.steps) :
         /\ exported.steps[k][3] = step_sizes[k]
         /\ exported.steps[k][4] = step_times[k]

C2_FilterIdempotent ==
  fn_pc = "twice" => fn_out.twice = fn_out.once

\* C3: every row of the effective transition matrix sums to 1; a row whose state
\* has an outgoing pair holds the pair counts over the row total, any other row
\* (state unvisited or without successor, sequence shorter than 2) is the
\* identity row
C3_RowsStochastic ==
  (fn_pc = "done" /\ fn_in.name = "matrix") =>
    LET st == fn_in.states
        Pairs(i, j) == Cardinality({q \in 1..(Len(st) - 1) : st[q] = i /\ st[q + 1] = j})
        Out(i) == Cardinality({q \in 1..(Len(st) - 1) : st[q] = i})
    IN  \A i \in 0..(fn_in.k - 1) :
          /\ FracSeqSum(fn_out.mat[i + 1]) = <<1, 1>>
          /\ \A j \in 0..(fn_in.k - 1) :
               Entry(fn_out.mat, i, j) =
                 IF Out(i) > 0 THEN Frac(Pairs(i, j), Out(i))
                 ELSE IF i = j THEN <<1, 1>> ELSE <<0, 1>>

\* a three-state matrix with a visited row and an unvisited one
C3_Witness ==
  /\ fn_pc = "done"
  /\ fn_in.name = "matrix"
  /\ fn_in.k = 3
  /\ fn_in.states = <<0, 1, 0, 0>>
  /\ Entry(fn_out.mat, 0, 1) = <<1, 2>>
  /\ Entry(fn_out.mat, 2, 2) = <<1, 1>>

C7_ConstantSequence ==
  (fn_pc = "done" /\ fn_in.name = "extract" /\ DiffIndices(fn_in.states) = <<>>) =>
    /\ fn_out.ex.dwell_times = <<>>
    /\ fn_out.ex.step_sizes = <<>>
    /\ fn_out.ex.step_times = <<>>
    /\ fn_out.stats.total_transitions = 0
    /\ fn_out.stats.transition_rate = <<0, 1>>
    /\ fn_out.stats.avg_dwell_time = <<At(fn_in.t, Len(fn_in.t) - 1) - At(fn_in.t, 0), 1>>

\* a constant sequence of several samples
C7_Witness ==
  /\ fn_pc = "done"
  /\ fn_in.name = "extract"
  /\ fn_in.states = <<1, 1, 1, 1>>
  /\ fn_out.stats.avg_dwell_time = <<6, 1>>

\* C10: for a noise-free two-level signal decoded with one transition at its
\* jump d, the extractor reports one step of size d, timed at the last sample
\* before the jump, when min_threshold <= |d| <= max_threshold, and no step
\* otherwise
C10_SingleStep ==
  (/\ fn_pc = "done" /\ fn_in.name = "extract"
   /\ Len(DiffIndices(fn_in.states)) = 1
   /\ fn_in.x = TwoLevel(Len(fn_in.x), DiffIndices(fn_in.states)[1], fn_in.x[1],
                         fn_in.x[Len(fn_in.x)] - fn_in.x[1])
   /\ fn_in.x[Len(fn_in.x)] # fn_in.x[1]) =>
    LET c == DiffIndices(fn_in.states)[1]
        d == fn_in.x[Len(fn_in.x)] - fn_in.x[1]
    IN  IF fn_in.lo <= Abs(d) /\ Abs(d) <= fn_in.hi
          THEN /\ fn_out.ex.step_sizes = << <<d, 1>> >>
               /\ fn_out.ex.step_times = <<At(fn_in.t, c)>>
          ELSE /\ fn_out.ex.step_sizes = <<>>
               /\ fn_out.ex.step_times = <<>>

\* a jump of exactly max_threshold, reported
C10_Witness ==
  /\ fn_pc = "done"
  /\ fn_in.name = "extract"
  /\ fn_in.x = <<0, 0, 0, -20, -20, -20>>
  /\ fn_in.states = <<1, 1, 1, 0, 0, 0>>
  /\ fn_in.lo = min_threshold
  /\ fn_out.ex.step_sizes = << <<-20, 1>> >>
  /\ fn_out.ex.step_times = <<3>>

\* C11 as stated: the avg_dwell_time of the transition statistics is the mean of
\* the durations in the extractor's dwell list when that list is non-empty, and
\* time[N-1] - time[0] otherwise
C11_AvgIsMeanOfDwellRecords ==
  (fn_pc = "done" /\ fn_in.name = "extract") =>
    LET d   == fn_out.ex.dwell_times
        dur == Array([k \in 1..Len(d) |-> d[k][2]])
    IN  fn_out.stats.avg_dwell_time =
          IF d # <<>> THEN Mean(dur)
          ELSE <<At(fn_in.t, Len(fn_in.t) - 1) - At(fn_in.t, 0), 1>>

\* ------------------------------------------------------------------------
\* Further properties of the window (specification Spec)
\* ------------------------------------------------------------------------

\* C12 as stated: in a session whose selected window holds fewer than 50
\* samples no HMM fit and no decode is ever executed (the request is rejected
\* before the window is constructed)
C12_SmallWindowNeverFitted ==
  Len(time_data) < 50 =>
    /\ ~model.present
    /\ last_event.fits = 0
    /\ last_event.decodes = 0

\* ------------------------------------------------------------------------
\* Properties of the window when model.fit may raise (specification SpecFit)
\* ------------------------------------------------------------------------

\* C13 as stated: window construction and Retrain always complete, also when
\* the fit fails: no exception leaves the handler, the window is open and it
\* holds a decoded sequence with one label per sample
C13_FitFailureContained ==
  last_event.name \in {"construct", "retrain"} =>
    /\ ~last_event.raised
    /\ pc = "open"
    /\ Len(hidden_states) = hmm_len

\* ------------------------------------------------------------------------
\* Further properties of the pipeline functions (specification SpecFn)
\* ------------------------------------------------------------------------

\* C14 as stated: given an even window size w > 1 the smoothing filter smooths
\* with window w - 1: index i with (w-1) div 2 <= i < N - (w-1) div 2 gets the
\* most frequent label of input[i - (w-1) div 2 .. i + (w-1) div 2] when that
\* label fills more than 0.6 * (w - 1) of the window, every other index keeps
\* its label (w - 1 = 1 smooths nothing)
C14_EvenWindowDown ==
  (fn_pc = "done" /\ fn_in.name = "smooth" /\ fn_in.m > 1 /\ fn_in.m % 2 = 0) =>
    LET st == fn_in.states
        w  == fn_in.m - 1
        h  == w \div 2
        Count(i, v) == Cardinality({j \in (i - h)..(i + h) : At(st, j) = v})
        Top(i) == CHOOSE v \in 0..2 :
                    /\ \A u \in 0..2 : Count(i, u) <= Count(i, v)
                    /\ \A u \in 0..(v - 1) : Count(i, u) < Count(i, v)
    IN  /\ Len(fn_out.once) = Len(st)
        /\ \A i \in 0..(Len(st) - 1) :
             At(fn_out.once, i) =
               IF /\ w > 1 /\ Len(st) >= w /\ h <= i /\ i < Len(st) - h
                  /\ 10 * Count(i, Top(i)) > 6 * w
                 THEN Top(i) ELSE At(st, i)

\* C14 amended: given an even window size w > 1 the smoothing filter smooths
\* with window w + 1: when N >= w, index i with w div 2 <= i < N - w div 2 gets
\* the most frequent label of input[i - w div 2 .. i + w div 2] (the smallest
\* such label on a tie) when that label fills more than 0.6 * (w + 1) of the
\* window; every other index keeps its label
C14_EvenWindowUp ==
  (fn_pc = "done" /\ fn_in.name = "smooth" /\ fn_in.m > 1 /\ fn_in.m % 2 = 0) =>
    LET st == fn_in.states
        w  == fn_in.m + 1
        h  == w \div 2
        Count(i, v) == Cardinality({j \in (i - h)..(i + h) : At(st, j) = v})
        Top(i) == CHOOSE v \in 0..2 :
                    /\ \A u \in 0..2 : Count(i, u) <= Count(i, v)
                    /\ \A u \in 0..(v - 1) : Count(i, u) < Count(i, v)
    IN  /\ Len(fn_out.once) = Len(st)
        /\ \A i \in 0..(Len(st) - 1) :
             At(fn_out.once, i) =
               IF /\ Len(st) >= fn_in.m /\ h <= i /\ i < Len(st) - h
                  /\ 10 * Count(i, Top(i)) > 6 * w
                 THEN Top(i) ELSE At(st, i)

\* window 4 on six samples: the lone 1 at index 2 is outvoted by the four 0s of
\* the five-sample window around it
C14_Witness ==
  /\ fn_pc = "done"
  /\ fn_in.name = "smooth"
  /\ fn_in.m = 4
  /\ fn_in.states = <<0, 0, 1, 0, 0, 0>>
  /\ fn_out.once = <<0, 0, 0, 0, 0, 0>>

\* ------------------------------------------------------------------------
\* Properties of the force regions (specification SpecSeg)
\* ------------------------------------------------------------------------

\* C15 as stated: when the segmenter records at least one region for the N
\* samples it was called on, the first region starts at index 0 and the last
\* one ends at index N-1
C15_AnchoredAtEnds ==
  (Len(plot_data.time) >= 2 /\ force_regions # <<>>) =>
    /\ force_regions[1].start_idx = 0
    /\ force_regions[Len(force_regions)].end_idx = Len(plot_data.time) - 1

\* C15 amended: when the segmenter records at least one region for N samples,
\* the regions are ordered and do not overlap, each joins two consecutive
\* boundaries of [0, merged change points, N-1] that are at least 10 index
\* steps and min_duration apart, and the first (last) region starts at 0 (ends
\* at N-1) exactly when an interval that starts at 0 (ends at N-1) is that long;
\* a shorter first or last interval is dropped and leaves the end uncovered
C15_RegionsBetweenBoundaries ==
  (Len(plot_data.time) >= 2 /\ force_regions # <<>>) =>
    LET t == plot_data.time
        p == SegAllPoints(t, plot_data.force, DefaultThreshold)
        r == force_regions
        Long(i) == /\ p[i + 1] - p[i] >= 10
                   /\ FracLeq(<<min_region_duration, 1>>, FracSub(At(t, p[i + 1]), At(t, p[i])))
    IN  /\ \A k \in 1..Len(r) :
             /\ \E i \in 1..(Len(p) - 1) : r[k].start_idx = p[i] /\ r[k].end_idx = p[i + 1]
             /\ r[k].end_idx - r[k].start_idx >= 10
             /\ r[k].duration = FracSub(At(t, r[k].end_idx), At(t, r[k].start_idx))
             /\ FracLeq(<<min_region_duration, 1>>, r[k].duration)
        /\ \A k \in 1..(Len(r) - 1) : r[k].end_idx <= r[k + 1].start_idx
        /\ r[1].start_idx = 0 <=> \E i \in 1..(Len(p) - 1) : p[i] = 0 /\ Long(i)
        /\ r[Len(r)].end_idx = Len(t) - 1
             <=> \E i \in 1..(Len(p) - 1) : p[i + 1] = Len(t) - 1 /\ Long(i)

\* a jump three samples after the start: the interval before it is dropped and
\* the only region starts at the change point
C15_Witness ==
  /\ plot_data.kind = "jump"
  /\ Len(plot_data.time) = SegLen
  /\ Len(force_regions) = 1
  /\ force_regions[1].start_idx = 2
  /\ force_regions[1].end_idx = SegLen - 1

\* C16 as stated: after the segmenter was called on fewer than 2 samples the
\* region list is empty, whatever an earlier call had recorded
C16_EmptyOnShortInput ==
  Len(plot_data.time) < 2 => force_regions = <<>>

\* C17 as stated: for a monotonically increasing force ramp without sharp jumps
\* (linear or smooth) that is at least 10 index steps and min_duration long, the
\* segmenter records exactly one region, from index 0 to N-1
C17_RampIsOneRegion ==
  (/\ plot_data.kind = "ramp"
   /\ Len(plot_data.time) > MinRegionSamples
   /\ FracLeq(<<min_region_duration, 1>>,
              FracSub(plot_data.time[Len(plot_data.time)], plot_data.time[1]))) =>
    /\ Len(force_regions) = 1
    /\ force_regions[1].start_idx = 0
    /\ force_regions[1].end_idx = Len(plot_data.time) - 1

\* ------------------------------------------------------------------------
\* Degenerate decodes (SPECIFICATION Spec)
\* ------------------------------------------------------------------------

\* C18: when the stabilized sequence holds m < K distinct labels the update
\* completes; the m labels map one-to-one onto the ranks 0..m-1 in ascending
\* order of mean extension; the rows of the effective matrix for the ranks
\* m..K-1 are identity rows; and neither an occupancy row nor a dwell record
\* carries a rank of m or more
C18_DegenerateState ==
  (pc = "open" /\ Cardinality(Unique(hidden_states)) < n_states) =>
    LET m == Cardinality(Unique(hidden_states))
        labels == Unique(hidden_states)
        mean(l) == Mean(Masked(extension_data, hidden_states, l))
    IN  /\ ~last_event.raised
        /\ DOMAIN state_map = labels
        /\ {state_map[l] : l \in labels} = 0..(m - 1)
        /\ \A a, b \in labels :
             FracLess(mean(a), mean(b)) => state_map[a] < state_map[b]
        /\ Len(effective_transmat) = n_states
        /\ \A r \in m..(n_states - 1) : \A j \in 0..(n_states - 1) :
             Entry(effective_transmat, r, j) = IF r = j THEN <<1, 1>> ELSE <<0, 1>>
        /\ Len(state_stats) = m
        /\ \A i \in 1..Len(state_stats) :
             \E r \in 0..(m - 1) : state_stats[i].name = StateNames(n_states)[r + 1]
        /\ \A i \in 1..Len(dwell_times) : dwell_times[i][1] \in 0..(m - 1)

\* a three-state session whose stabilized sequence holds the labels 0 and 2
\* only, with transitions between them and dwell records
C18_Witness ==
  /\ pc = "open"
  /\ n_states = 3
  /\ Unique(hidden_states) = {0, 2}
  /\ dwell_times # <<>>
  /\ Len(state_stats) = 2
  /\ effective_transmat[3] = <<<<0, 1>>, <<0, 1>>, <<1, 1>>>>

\* ------------------------------------------------------------------------
\* The passes of the minimum-dwell filter (SPECIFICATION SpecFn)
\* ------------------------------------------------------------------------

\* C19: the minimum-dwell filter ends after at most 10 merging passes; each pass
\* overwrites one maximal run, the leftmost one shorter than min_dwell, and
\* nothing else; a result reached with fewer than 10 merges has no maximal run
\* shorter than min_dwell unless it is a single run
C19_PassesBounded ==
  (fn_pc = "once" /\ fn_in.name = "filter") =>
    LET tr     == fn_out.passes
        merges == Len(tr) - 1
        m      == fn_in.m
        N      == Len(fn_in.states)
        \* [s, e) is a maximal run of a
        IsRun(a, s, e) ==
          /\ s < e
          /\ \A j \in s..(e - 1) : At(a, j) = At(a, s)
          /\ s = 0 \/ At(a, s - 1) # At(a, s)
          /\ e = N \/ At(a, e) # At(a, s)
        Short(a) == {r \in (0..N) \X (0..N) : IsRun(a, r[1], r[2]) /\ r[2] - r[1] < m}
    IN  /\ tr[1] = fn_in.states
        /\ tr[Len(tr)] = fn_out.once
        /\ merges <= 10
        /\ \A p \in 1..merges :
             \E r \in Short(tr[p]) :
               /\ \A q \in Short(tr[p]) : r[1] <= q[1]
               /\ \A j \in 0..(N - 1) :
                    (At(tr[p + 1], j) # At(tr[p], j)) <=> (r[1] <= j /\ j < r[2])
        /\ merges < 10 => (Short(fn_out.once) = {} \/ IsRun(fn_out.once, 0, N))

\* ten merges that leave a run of one sample behind at the end
C19_Witness ==
  /\ fn_pc = "once" /\ fn_in.name = "filter"
  /\ fn_in.m = 2
  /\ Len(fn_out.passes) = 11
  /\ At(fn_out.once, Len(fn_out.once) - 1) # At(fn_out.once, Len(fn_out.once) - 2)

\* C20: every merge of the minimum-dwell filter overwrites one maximal run
\* shorter than min_dwell, all of it, with the state of the longer of its two
\* neighbouring maximal runs, the preceding one on a tie; a run at the start
\* (end) of the sequence takes the state of the run after (before) it; no
\* sample outside the run changes
C20_MergeIntoLongerNeighbour ==
  (fn_pc = "once" /\ fn_in.name = "filter") =>
    LET tr == fn_out.passes
        N  == Len(fn_in.states)
        \* [s, e) is a maximal run of a
        IsRun(a, s, e) ==
          /\ s < e
          /\ \A j \in s..(e - 1) : At(a, j) = At(a, s)
          /\ s = 0 \/ At(a, s - 1) # At(a, s)
          /\ e = N \/ At(a, e) # At(a, s)
        \* length of the maximal run of a that ends before s / starts at e
        Before(a, s) == s - (CHOOSE b \in 0..(s - 1) : IsRun(a, b, s))
        After(a, e)  == (CHOOSE b \in (e + 1)..N : IsRun(a, e, b)) - e
        Target(a, s, e) ==
          IF s = 0 THEN At(a, e)
          ELSE IF e = N THEN At(a, s - 1)
          ELSE IF Before(a, s) >= After(a, e) THEN At(a, s - 1) ELSE At(a, e)
    IN  \A p \in 1..(Len(tr) - 1) :
          \E s \in 0..(N - 1), e \in 1..N :
            /\ IsRun(tr[p], s, e)
            /\ e - s < fn_in.m
            /\ \A j \in 0..(N - 1) :
                 At(tr[p + 1], j) = IF s <= j /\ j < e THEN Target(tr[p], s, e) ELSE At(tr[p], j)

\* a run of one sample between two runs of two samples with different states
\* merged into the preceding one
C20_Witness ==
  /\ fn_pc = "once" /\ fn_in.name = "filter"
  /\ fn_in.states = <<0, 0, 1, 2, 2>>
  /\ fn_in.m = 2
  /\ fn_out.passes = <<<<0, 0, 1, 2, 2>>, <<0, 0, 0, 2, 2>>>>
  /\ fn_out.once = <<0, 0, 0, 2, 2>>

\* ------------------------------------------------------------------------
\* The smoothing filter with an odd window (SPECIFICATION SpecFn)
\* ------------------------------------------------------------------------

C22_CanonicalMapping ==
  pc = "open" =>
    LET labels == {hidden_states[k] : k \in 1..Len(hidden_states)}
        m      == Cardinality(labels)
        Where(l) == {k \in 1..Len(hidden_states) : hidden_states[k] = l}
        Total(l) == SeqSum(Array([k \in 1..Len(extension_data) |->
                             IF k \in Where(l) THEN extension_data[k] ELSE 0]))
        mean(l)  == Frac(Total(l), Cardinality(Where(l)))
        names    == IF n_states = 2 THEN <<"Closed", "Open">>
                    ELSE <<"Closed", "Intermediate", "Open">>
    IN  /\ DOMAIN state_map = labels
        /\ {state_map[l] : l \in labels} = 0..(m - 1)
        /\ \A a, b \in labels : FracLess(mean(a), mean(b)) => state_map[a] < state_map[b]
        /\ Len(state_stats) = m
        /\ \A l \in labels :
             \E i \in 1..m : /\ state_stats[i].mean = mean(l)
                             /\ state_stats[i].name = names[state_map[l] + 1]
                             /\ i = Cardinality({o \in labels : o <= l})
        /\ Len(square_wave) = Len(extension_data)
        /\ \A k \in 1..Len(square_wave) : square_wave[k] = mean(hidden_states[k])

\* a two-state window in which label 0 has the higher mean extension: it gets
\* rank 1 and the name Open
C22_Witness ==
  /\ pc = "open"
  /\ n_states = 2
  /\ Unique(hidden_states) = {0, 1}
  /\ state_map[0] = 1 /\ state_map[1] = 0
  /\ state_stats[1].name = "Open" /\ state_stats[2].name = "Closed"
  /\ FracLess(state_stats[2].mean, state_stats[1].mean)

\* ------------------------------------------------------------------------
\* Dwell and step records (SPECIFICATION SpecFn)
\* ------------------------------------------------------------------------

\* C23: every dwell record of the extractor describes one maximal run of the
\* canonical sequence: there is a run from sample s to sample e whose rank is
\* the record's state and whose time[e] - time[s] is the record's duration
C23_RecordIsOneRun ==
  (fn_pc = "done" /\ fn_in.name = "extract") =>
    LET ms == MappedStates(CreateStateMapping(fn_in.states, fn_in.x), fn_in.states)
        N  == Len(ms)
        d  == fn_out.ex.dwell_times
        \* samples s..e are a maximal run of ms
        IsRun(s, e) ==
          /\ s <= e
          /\ \A j \in s..e : At(ms, j) = At(ms, s)
          /\ s = 0 \/ At(ms, s - 1) # At(ms, s)
          /\ e = N - 1 \/ At(ms, e + 1) # At(ms, s)
    IN  \A k \in 1..Len(d) :
          \E s \in 0..(N - 1), e \in 0..(N - 1) :
            /\ IsRun(s, e)
            /\ d[k][1] = At(ms, s)
            /\ d[k][2] = At(fn_in.t, e) - At(fn_in.t, s)

\* C24: at every transition i -> i+1 of the stabilized sequence the step is
\* mean(x[i+1 : i+1+w]) - mean(x[i-w+1 : i+1]) with w = 10, the window before
\* the transition starting no earlier than the run that ends at i; the steps
\* with min_threshold <= |step| <= max_threshold are the ones recorded, in order
C24_StepFromWindowBefore ==
  (fn_pc = "done" /\ fn_in.name = "extract") =>
    LET st == fn_in.states
        x  == fn_in.x
        N  == Len(st)
        w  == 10
        T  == {i \in 0..(N - 2) : At(st, i) # At(st, i + 1)}
        RunStart(i) == CHOOSE s \in 0..i :
                         /\ \A j \in s..i : At(st, j) = At(st, i)
                         /\ s = 0 \/ At(st, s - 1) # At(st, i)
        Lo(i) == IF i - w + 1 < RunStart(i) THEN RunStart(i) ELSE i - w + 1
        Hi(i) == IF i + 1 + w > N THEN N ELSE i + 1 + w
        Avg(a, b) == Frac(SeqSum(Array([k \in 1..(b - a) |-> At(x, a + k - 1)])), b - a)
        Step(i) == FracSub(Avg(i + 1, Hi(i)), Avg(Lo(i), i + 1))
        Kept == {i \in T : /\ FracLeq(<<fn_in.lo, 1>>, FracAbs(Step(i)))
                           /\ FracLeq(FracAbs(Step(i)), <<fn_in.hi, 1>>)}
        order == SortedSeq(Kept)
    IN  fn_out.ex.step_sizes = Array([k \in 1..Len(order) |-> Step(order[k])])

\* ------------------------------------------------------------------------
\* The transition penalty (SPECIFICATION Spec)
\* ------------------------------------------------------------------------

\* C25: every handler that decodes leaves in model.transmat_ the blend of
\* original_transmat with the identity for the penalty p shown in the spin box,
\* 100 * transmat_[i][j] = (100 - p) * original[i][j] + p * [i = j] (the rows of
\* original sum to 1, so the row normalisation changes nothing), whatever
\* transmat_ was before; and a parameter-change event leaves original_transmat
\* as it was
C25_BlendOfOriginal ==
  [][last_event'.decodes = 1 =>
       /\ original_transmat'.present
       /\ \A i, j \in 1..n_states :
            FracMul(<<100, 1>>, model'.transmat_[i][j]) =
              FracAdd(FracMul(<<100 - transition_penalty_spin', 1>>,
                              original_transmat'.mat[i][j]),
                      <<IF i = j THEN transition_penalty_spin' ELSE 0, 1>>)
       /\ last_event'.name \notin {"construct", "retrain"}
            => original_transmat' = original_transmat]_vars

\* the penalty moved back to its default after a decode with another value
C25_Witness ==
  /\ pc = "open"
  /\ last_event = [name |-> "penalty", fits |-> 0, decodes |-> 1, raised |-> FALSE]
  /\ transition_penalty_spin = DefaultPenalty
  /\ model.transmat_ # original_transmat.mat
  /\ model.transmat_ =
       UpdatedTransmat(original_transmat.mat, original_transmat.mat, n_states, DefaultPenalty)

\* ------------------------------------------------------------------------
\* Properties of the TDMS reader (specification SpecRead)
\* ------------------------------------------------------------------------

\* C26: the chunk ranges of read_tdms_file are num_workers contiguous ranges
\* that start at 0, end at file_size and neither overlap nor leave a gap; in
\* whatever order the workers return, the merged data of a channel is at any
\* time the channel's samples up to the end of the last chunk merged, in their
\* order; and the table exists only when every chunk is merged, and then holds
\* every sample of every channel once, in order, before the padding
C26_ChunksMergedInOrder ==
  tdms_file # NoFile =>
    LET n  == tdms_file.num_workers
        a  == StartIndices(tdms_file.file_size, n)
        b  == EndIndices(tdms_file.file_size, n)
        ch == tdms_file.channels
        Upto(c, e) == [k \in 1..(IF e < Len(ch[c]) THEN e ELSE Len(ch[c])) |-> ch[c][k]]
    IN  /\ Len(a) = n /\ Len(b) = n
        /\ a[1] = 0 /\ b[n] = tdms_file.file_size
        /\ \A i \in 1..n : a[i] <= b[i]
        /\ \A i \in 1..(n - 1) : b[i] = a[i + 1]
        /\ \A i \in 1..n : futures[i].done =>
             \A c \in DOMAIN ch : futures[i].data[c] = ChannelSlice(ch[c], a[i], b[i])
        /\ merged >= 1 => \A c \in DOMAIN ch : all_data[c] = Upto(c, b[merged])
        /\ pc = "table" =>
             /\ merged = n
             /\ \A i \in 1..n : futures[i].done
             /\ \A c \in DOMAIN ch :
                  /\ all_data[c] = ch[c]
                  /\ \A k \in 1..Len(df_list[c]) :
                       df_list[c][k] = IF k <= Len(ch[c]) THEN ch[c][k] ELSE NaN

\* four workers, one sample of the channel in each chunk, the last worker
\* returning first and the first one last: the table holds the four samples in
\* their order
C26_Witness ==
  /\ pc = "table"
  /\ tdms_file.num_workers = 4
  /\ tdms_file.file_size = 4
  /\ futures[4].nth = 1 /\ futures[1].nth = 4
  /\ \A i \in 1..4 : Len(futures[i].data["mag height mm"]) = 1
  /\ df_list["mag height mm"] = <<11, 12, 13, 14>>

\* ------------------------------------------------------------------------
\* Smoothing after the minimum-dwell filter (SPECIFICATION SpecFn)
\* ------------------------------------------------------------------------

\* C27: smoothing with a window of 3 or more creates no run shorter than the
\* minimum dwell: for every d >= 2, when every maximal run of the input has at
\* least d samples, every maximal run of the output has at least d samples
C27_SmoothingKeepsMinDwell ==
  (fn_pc = "done" /\ fn_in.name = "smooth" /\ fn_in.m >= 3) =>
    LET N == Len(fn_in.states)
        \* samples s..e are a maximal run of a
        IsRun(a, s, e) ==
          /\ s <= e
          /\ \A j \in s..e : At(a, j) = At(a, s)
          /\ s = 0 \/ At(a, s - 1) # At(a, s)
          /\ e = N - 1 \/ At(a, e + 1) # At(a, s)
        RunsAtLeast(a, d) ==
          \A s \in 0..(N - 1), e \in 0..(N - 1) : IsRun(a, s, e) => e - s + 1 >= d
    IN  \A d \in 2..N : RunsAtLeast(fn_in.states, d) => RunsAtLeast(fn_out.once, d)

\* ------------------------------------------------------------------------
\* Retrain with a fit that raises (SPECIFICATION SpecFit)
\* ------------------------------------------------------------------------

\* C28: a Retrain whose fit raises changes nothing: the model, original_transmat,
\* the stabilized sequence and the statistics are those of before, the model is
\* still the fitted one original_transmat was copied from, and a later
\* parameter-change event decodes with that model without raising
C28_FailedRetrainChangesNothing ==
  [][/\ (last_event'.name = "retrain" /\ last_event'.raised) =>
          /\ model' = model
          /\ original_transmat' = original_transmat
          /\ hidden_states' = hidden_states
          /\ resultVars' = resultVars
     /\ (pc' = "open" /\ last_event'.name \in {"penalty", "n_iter", "min_dwell",
                                                "smoothing_window", "use_smoothing"}) =>
          /\ ~last_event'.raised
          /\ model'.fitted
          /\ model'.fit.transmat = original_transmat'.mat]_vars

\* ------------------------------------------------------------------------
\* The window and the filter widgets of its parent view (specification
\* SpecTrain): the view stays usable while the window is open
\* ------------------------------------------------------------------------

\* plotfig as the filter widgets call it: the data on display is drawn again
\* (the window's session keeps no plot of its own: NoPlot)
Replotted(regions) ==
  IF plot_data = NoPlot THEN regions
  ELSE HighlightForceRegions(plot_data.time, plot_data.force, DefaultThreshold, regions,
                             min_region_duration)

openWindowVars == <<pc, time_data, extension_data, hmm_len, n_states, memo, model,
                original_transmat, hidden_states, resultVars, spinVars, updating, last_event,
                exported, fnVars, readerVars, used_current_filter, hmm_data>>

\* filterselection.currentTextChanged: plotfig (the poly order row concerns
\* Savitzky-Golay only)
SetFilterSelection ==
  /\ pc = "open"
  /\ \E text \in FilterTypes \ {filter_setting.filter_type} :
       filter_setting' = [filter_setting EXCEPT !.filter_type = text]
  /\ force_regions' = Replotted(force_regions)
  /\ RedrawSelection(force_regions')
  /\ UNCHANGED <<openWindowVars, plot_data, min_region_duration>>

\* kernel_size_box.valueChanged: plotfig, then _on_kernel_size_changed, which
\* calls plotfig again
SetKernelSize ==
  /\ pc = "open"
  /\ \E value \in KernelSizes \ {filter_setting.kernel_size} :
       filter_setting' = [filter_setting EXCEPT !.kernel_size = value]
  /\ force_regions' = Replotted(Replotted(force_regions))
  /\ RedrawSelection(force_regions')
  /\ UNCHANGED <<openWindowVars, plot_data, min_region_duration>>

\* kinetics_analysis_calculation has made extension_data_for_hmm of a two-state
\* session, with "Use Current Filter Settings" checked or not
InitTrain ==
  /\ pc = "new"
  /\ \E se \in Sessions, setting \in OpeningSettings, use_current_filter \in BOOLEAN :
       /\ se.n_states = 2
       /\ n_states = se.n_states
       /\ time_data = se.time
       /\ extension_data = se.x
       /\ filter_setting = setting
       /\ used_current_filter = use_current_filter
       /\ hmm_data = FilteredForHmm(Len(se.x), use_current_filter, setting)
       /\ hmm_len = hmm_data.n
       /\ memo = Memo(se, hmm_data.n)
  /\ ViewFieldsInit
  /\ ReaderIdle
  /\ WindowFieldsInit
  /\ SpinsInit
  /\ last_event = [name |-> "none", fits |-> 0, decodes |-> 0, raised |-> FALSE]
  /\ exported = NoExport
  /\ fn_in = NoFn /\ fn_out = NoFn /\ fn_pc = "off"

NextTrain ==
  \/ Construct
  \/ RetrainModel
  \/ SetFilterSelection
  \/ SetKernelSize

SpecTrain == InitTrain /\ [][NextTrain]_vars

\* C29: whenever the window is open, the data its model was fitted on and the
\* data it decodes come from the same filter type and kernel size and have the
\* same number of samples
C29_TrainedOnDecodedData ==
  (pc = "open" /\ model.fitted) => model.trained_on = hmm_data

\* ------------------------------------------------------------------------
\* The kinetics view's selections (specification SpecSel): two middle-clicked
\* time points, or one force region picked in the combo box
\* ------------------------------------------------------------------------

\* mouse buttons of a button_press_event (2: middle)
MouseButtons == {1, 2}

\* the clicks: inside the axes at (xdata, ydata) with either button, or outside
ClickEvents ==
  {[inaxes |-> TRUE, button |-> b, xdata |-> Frac(1, 2), ydata |-> 0] : b \in MouseButtons}
  \cup {[inaxes |-> FALSE, button |-> 2, xdata |-> Frac(0, 1), ydata |-> 0]}

\* get_point without the block that removes the region highlight
GetPointKeepsHighlight ==
  /\ pc = "view"
  /\ \E event \in ClickEvents :
       /\ event.inaxes /\ event.button = 2
       /\ points_for_save' =
            Append(IF Len(points_for_save) = 2 THEN <<>> ELSE points_for_save,
                   <<event.xdata, event.ydata>>)
  /\ UNCHANGED <<hmmVars, force_regions, min_region_duration, plot_data,
                 region_highlight_rectangle, region_selector>>

\* get_point: a middle click inside the axes (any other event returns at
\* once). Two stored points are dropped first; the region highlight is removed
\* (on a rectangle whose axes are gone, remove() may raise: the bare except
\* then skips the reset of the attribute); the point is appended
GetPoint ==
  /\ pc = "view"
  /\ \E event \in ClickEvents, remove_raises \in BOOLEAN :
       /\ event.inaxes /\ event.button = 2
       /\ remove_raises =>
            (region_highlight_rectangle.present /\ ~region_highlight_rectangle.on_axes)
       /\ points_for_save' =
            Append(IF Len(points_for_save) = 2 THEN <<>> ELSE points_for_save,
                   <<event.xdata, event.ydata>>)
       /\ region_highlight_rectangle' =
            IF region_highlight_rectangle.present /\ ~remove_raises
              THEN NoRectangle ELSE region_highlight_rectangle
  /\ UNCHANGED <<hmmVars, force_regions, min_region_duration, plot_data, region_selector>>

\* select_force_region: the user makes another entry of the combo box current
SelectForceRegion ==
  /\ pc = "view"
  /\ \E selected_idx \in (0..(Len(force_regions) - 1)) \ {region_selector} :
       LET sel == SelectForceRegionAt(force_regions, selected_idx, points_for_save,
                                      region_highlight_rectangle)
       IN  /\ region_selector' = selected_idx
           /\ points_for_save' = sel.points_for_save
           /\ region_highlight_rectangle' = sel.region_highlight_rectangle
  /\ UNCHANGED <<hmmVars, force_regions, min_region_duration, plot_data>>

NextSel ==
  \/ GetPoint
  \/ SelectForceRegion
  \/ Plotfig
  \/ OnMinDurationChanged

SpecSel == InitSeg /\ [][NextSel]_vars

\* C30: before and after every step the point list holds at most two points,
\* and two stored points never coexist with a region highlight drawn on the
\* figure: a step that
\* stores a point leaves no highlight drawn, and a step that draws a highlight
\* leaves the point list empty
C30_PointsOrRegion ==
  [][/\ Len(points_for_save) <= 2 /\ Len(points_for_save') <= 2
     /\ ~(/\ Len(points_for_save) = 2
          /\ region_highlight_rectangle.present /\ region_highlight_rectangle.on_axes)
     /\ ~(/\ Len(points_for_save') = 2
          /\ region_highlight_rectangle'.present /\ region_highlight_rectangle'.on_axes)
     /\ (points_for_save' # points_for_save /\ points_for_save' # <<>>)
          => ~(region_highlight_rectangle'.present /\ region_highlight_rectangle'.on_axes)
     /\ (/\ region_highlight_rectangle'.present /\ region_highlight_rectangle'.on_axes
         /\ region_highlight_rectangle' # region_highlight_rectangle)
          => points_for_save' = <<>>]_vars

\* C30 witness: the second region was picked in the combo box, then two clicks
\* replaced its highlight by a completed two-point selection
C30_Witness ==
  /\ Len(force_regions) >= 2
  /\ region_selector = 1
  /\ Len(points_for_save) = 2
  /\ ~region_highlight_rectangle.present

====
